---- MODULE Spec2Model ----
(***************************************************************************)
(* Client-side authentication session manager of walkDog-front             *)
(* (src/lib/auth-context.tsx): session restore at start-up, background     *)
(* profile validation and the authenticated-call wrapper.                  *)
(*                                                                         *)
(* JavaScript is single-threaded: the code between two awaits runs         *)
(* atomically, so every action below is one such segment, resumed by the   *)
(* completion of the awaited storage or network call.                      *)
(***************************************************************************)
EXTENDS Integers, Sequences, FiniteSets, TLC

(* ------------------------------ bounds -------------------------------- *)
MaxTokId  == 1      \* distinct access tokens of one shape
MaxRefreshId == 2   \* distinct refresh tokens
MaxUserId == 2      \* distinct user profiles the backend may return
MaxTick   == 1      \* seconds the clock may advance
MaxCallers == 1     \* invocations of authenticatedRequest that exist
MaxCoords == 1      \* longest routeCoordinates of a pending guest walk
MaxRuns == 2        \* migrations one screen starts
MaxFails == 7       \* failed attempts recorded without a reset
MaxWaits == 3       \* waits between calls of the rate limiter
MaxSubmits == 2     \* submissions one login or register screen handles
MaxShift == 2       \* seconds tried on either side of a buffer's edge
MaxSubmitWaits == 1 \* waits between and during the submissions of a screen
StartClock == 1000000   \* Date.now() when the process starts
StartTime == 1000   \* Date.now()/1000 when the process starts

(* ------------------------- program constants -------------------------- *)
TOKEN_REFRESH_BUFFER_SECONDS == 5 * 60

(* ------------------------------ values -------------------------------- *)
\* An access token string, by what decodeJWT can see of it: the number of
\* dot-separated segments, whether the middle segment decodes to JSON, and
\* the exp claim (0: absent, which JavaScript's !payload.exp cannot tell
\* from exp = 0).
NoToken == [id |-> 0, segs |-> 0, json |-> FALSE, exp |-> 0]

TokenShapes ==
    { [segs |-> 2, json |-> TRUE,  exp |-> StartTime + 1],
      [segs |-> 3, json |-> FALSE, exp |-> 0],
      [segs |-> 3, json |-> TRUE,  exp |-> 0],
      [segs |-> 3, json |-> TRUE,  exp |-> StartTime + 1],
      [segs |-> 3, json |-> TRUE,  exp |-> StartTime + TOKEN_REFRESH_BUFFER_SECONDS + 1] }

TokensOf(ids) ==
    { [id |-> i, segs |-> s.segs, json |-> s.json, exp |-> s.exp] :
        i \in ids, s \in TokenShapes }

Tokens == TokensOf(1..MaxTokId)

\* The access tokens the backend issues: JWTs with an exp claim, expiring
\* within the refresh buffer or after it.
IssuedTokens == { t \in Tokens : t.segs = 3 /\ t.json /\ t.exp # 0 }

NoRefresh == 0
RefreshTokens == 1..MaxRefreshId

NoUser == 0
Users == 1..MaxUserId

\* A stored string of user_data: JSON.stringify(user), or text that
\* JSON.parse rejects.
NoStr == [json |-> FALSE, val |-> 0]
CorruptStr == [json |-> FALSE, val |-> 1]
JSONstringify(u) == [json |-> TRUE, val |-> u]
JSONparseThrows(s) == ~s.json
JSONparse(s) == s.val

(* ---------------------------- TokenClock ------------------------------ *)
NullPayload == [null |-> TRUE, exp |-> 0]

decodeJWT(t) ==
    IF t.segs # 3 THEN NullPayload
    ELSE IF ~t.json THEN NullPayload
    ELSE [null |-> FALSE, exp |-> t.exp]

\* a test that lets a token through at the very edge of the buffer
isTokenExpiredOrExpiringStrict(t, bufferSeconds, clock) ==
    LET payload == decodeJWT(t) IN
    IF payload.null \/ payload.exp = 0 THEN TRUE
    ELSE clock > payload.exp - bufferSeconds

isTokenExpiredOrExpiring(t, bufferSeconds, clock) ==
    LET payload == decodeJWT(t) IN
    IF payload.null \/ payload.exp = 0 THEN TRUE
    ELSE clock >= payload.exp - bufferSeconds

NullTime == [null |-> TRUE, secs |-> 0]

getTokenTimeRemaining(t, clock) ==
    LET payload == decodeJWT(t) IN
    IF payload.null \/ payload.exp = 0 THEN NullTime
    ELSE [null |-> FALSE, secs |-> payload.exp - clock]

(* ------------------------- backend answers ---------------------------- *)
\* An axios call resolves (type "ok", a 2xx status), rejects with an
\* AxiosError (type "axios"; status 0: no HTTP response was received), or
\* rejects with another error (type "other").
ErrorStatuses == {0, 401, 403, 500}

RefreshAnswers ==
    { [type |-> "ok", status |-> 200, access |-> t, refresh |-> r] :
        t \in IssuedTokens \cup {NoToken}, r \in RefreshTokens \cup {NoRefresh} }
    \cup { [type |-> "axios", status |-> s, access |-> NoToken, refresh |-> NoRefresh] :
        s \in ErrorStatuses }
    \cup { [type |-> "other", status |-> 0, access |-> NoToken, refresh |-> NoRefresh] }

ProfileAnswers ==
    { [type |-> "ok", status |-> 200, user |-> u] : u \in Users \cup {NoUser} }
    \cup { [type |-> "ok", status |-> 204, user |-> NoUser] }
    \cup { [type |-> "axios", status |-> s, user |-> NoUser] : s \in ErrorStatuses }
    \cup { [type |-> "other", status |-> 0, user |-> NoUser] }

RequestAnswers ==
    { [type |-> "ok", status |-> 200] }
    \cup { [type |-> "axios", status |-> s] : s \in ErrorStatuses }
    \cup { [type |-> "other", status |-> 0] }

\* Result of an async helper: a value, null, or a thrown Error('NETWORK_ERROR').
NoTokens == [accessToken |-> NoToken, refreshToken |-> NoRefresh]

refreshAccessToken(refreshToken, a) ==
    IF a.type = "ok" THEN
        IF a.access = NoToken
        THEN [kind |-> "null", tokens |-> NoTokens]
        ELSE [kind |-> "value",
              tokens |-> [accessToken |-> a.access,
                          refreshToken |-> IF a.refresh # NoRefresh
                                           THEN a.refresh ELSE refreshToken]]
    ELSE IF a.type = "axios" /\ a.status \in {401, 403}
        THEN [kind |-> "null", tokens |-> NoTokens]
    ELSE IF a.type = "axios" /\ a.status = 0
        THEN [kind |-> "throw", tokens |-> NoTokens]
    ELSE [kind |-> "null", tokens |-> NoTokens]

fetchUserProfile(a) ==
    IF a.type = "ok" THEN
        IF a.status = 200 /\ a.user # NoUser
        THEN [kind |-> "value", user |-> a.user]
        ELSE [kind |-> "null", user |-> NoUser]
    ELSE IF a.type = "axios" /\ a.status \in {401, 403}
        THEN [kind |-> "null", user |-> NoUser]
    ELSE IF a.type = "axios" /\ a.status = 0
        THEN [kind |-> "throw", user |-> NoUser]
    ELSE [kind |-> "null", user |-> NoUser]

(* ------------------------------ state --------------------------------- *)
VARIABLES
    token,      \* useState token (NoToken: null)
    user,       \* useState user (NoUser: null)
    isLoading,  \* useState isLoading
    store,      \* SecureStore: auth_token, refresh_token, user_data
    now,        \* Math.floor(Date.now() / 1000)
    ld,         \* the loadStoredAuth call made on mount
    bg,         \* the background validation loadStoredAuth may start
    ar,         \* the authenticatedRequest invocations
    li,         \* the login call in flight
    rg,         \* the register call in flight
    lo,         \* the logout call in flight
    mg,         \* the migrateGuestWalk call in flight
    sc,         \* the login or register screen and the pending guest walk
    rl,         \* rate limiter: the state kept for the action key
    clock,      \* Date.now() in milliseconds
    hs,         \* the submission the login or register screen is handling
    tc          \* a token, a time and a buffer, and what the token clock says

\* the variables of login, register and logout
opVars == <<li, rg, lo>>

\* the variables of the guest walk migration
walkVars == <<mg, sc>>

\* the variables of the rate limiter, of the screen handler that calls it
\* and of the token clock taken alone
rateVars == <<rl, clock, hs, tc>>

vars == <<token, user, isLoading, store, now, ld, bg, ar, li, rg, lo, mg, sc, rl, clock, hs, tc>>

isAuthenticated == token # NoToken /\ user # NoUser

Callers == 1..MaxCallers

EmptyStore == [auth_token |-> NoToken, refresh_token |-> NoRefresh, user_data |-> NoStr]


(* --------------------------- secure store ----------------------------- *)
\* One awaited storage.deleteItem of clearStoredAuth.  The three deletions
\* sit in one try block: the first that throws ends clearStoredAuth, which
\* swallows the error.  "next" is the position after the await.
clearStoredAuth(pcv, st, ok) ==
    IF ~ok THEN [store |-> st, next |-> "return"]
    ELSE IF pcv = "del_token"
        THEN [store |-> [st EXCEPT !.auth_token = NoToken], next |-> "del_refresh"]
    ELSE IF pcv = "del_refresh"
        THEN [store |-> [st EXCEPT !.refresh_token = NoRefresh], next |-> "del_user"]
    ELSE [store |-> [st EXCEPT !.user_data = NoStr], next |-> "return"]

ClearPcs == {"del_token", "del_refresh", "del_user"}

(* ------------------------- loadStoredAuth ----------------------------- *)
LdInit ==
    [pc |-> "read_token",
     storedToken |-> NoToken, storedRefreshToken |-> NoRefresh, storedUser |-> NoStr,
     timeRemaining |-> NullTime, newTokens |-> NoTokens, validatedUser |-> NoUser,
     caught |-> FALSE,        \* the catch of line 250 was entered
     serverOk |-> FALSE,      \* a server call of this restore was answered 2xx
     netCalls |-> 0,          \* network answers this restore has awaited
     fetches |-> 0,           \* profile fetches this restore has issued
     lastType |-> "none",     \* type and status of the last network answer
     lastStatus |-> 0,
     readFailed |-> FALSE,    \* a getItem threw
     writeFailed |-> FALSE,   \* a setItem threw
     delFailed |-> FALSE,     \* a deleteItem of clearStoredAuth threw
     path |-> "none"]

\* pc "settled": the promise chain has ended; result tells how
BgInit == [pc |-> "none", accessToken |-> NoToken, validatedUser |-> NoUser,
           result |-> "none"]

\* line 168: the stored token is used without any network call
useStoredDirectly(timeRemaining) ==
    ~timeRemaining.null /\ timeRemaining.secs > TOKEN_REFRESH_BUFFER_SECONDS

\* offline tolerance that stops at the refresh buffer instead of at expiry
offlineToleratedBuffer(timeRemaining) ==
    ~timeRemaining.null /\ timeRemaining.secs > TOKEN_REFRESH_BUFFER_SECONDS

\* offline tolerance that forgets to look at the remaining time
offlineToleratedNoCheck(timeRemaining) == TRUE

\* line 216: offline tolerance of the refresh path
offlineTolerated(timeRemaining) ==
    ~timeRemaining.null /\ timeRemaining.secs > 0

\* line 240-243: offline tolerance of the path without refresh token
offlineToleratedNoRefresh(timeRemaining) == TRUE

\* finally of line 254
\* a restore that ends without touching isLoading
LdFinishKeepsLoading(l, p) ==
    /\ ld' = [l EXCEPT !.pc = "done", !.path = p]
    /\ UNCHANGED isLoading

LdFinish(l, p) ==
    /\ ld' = [l EXCEPT !.pc = "done", !.path = p]
    /\ isLoading' = FALSE

\* catch of line 250: clearStoredAuth is awaited next
LdCatch(l) ==
    /\ ld' = [l EXCEPT !.pc = "del_token", !.caught = TRUE]
    /\ UNCHANGED isLoading

\* setToken(storedToken); setUser(JSON.parse(storedUser)); return
\* (lines 170-171, 218-220, 242-243): JSON.parse may throw after setToken.
LdAdoptStored(l, p, startBg) ==
    /\ token' = l.storedToken
    /\ IF JSONparseThrows(l.storedUser)
       THEN /\ LdCatch(l)
            /\ UNCHANGED <<user, bg>>
       ELSE /\ user' = JSONparse(l.storedUser)
            /\ bg' = IF startBg
                     THEN [BgInit EXCEPT !.pc = "fetch", !.accessToken = l.storedToken]
                     ELSE bg
            /\ LdFinish(l, p)

\* catch of line 213 with refreshError the Error('NETWORK_ERROR')
LdRefreshNetworkError(l) ==
    IF offlineTolerated(l.timeRemaining)
    THEN LdAdoptStored(l, "offline", FALSE)
    ELSE LdCatch(l) /\ UNCHANGED <<token, user, bg>>

\* lines 155-157: the three awaited reads
LoadRead ==
    /\ ld.pc \in {"read_token", "read_refresh"}
    /\ \E ok \in BOOLEAN :
        IF ~ok THEN LdCatch([ld EXCEPT !.readFailed = TRUE])
        ELSE IF ld.pc = "read_token"
            THEN ld' = [ld EXCEPT !.pc = "read_refresh", !.storedToken = store.auth_token]
                 /\ UNCHANGED isLoading
        ELSE ld' = [ld EXCEPT !.pc = "read_user", !.storedRefreshToken = store.refresh_token]
             /\ UNCHANGED isLoading
    /\ UNCHANGED <<token, user, store, now, bg, ar>>
    /\ UNCHANGED <<opVars, walkVars, rateVars>>

\* line 157 resumed, then lines 159-228 up to the next await
LoadDecide ==
    /\ ld.pc = "read_user"
    /\ \E ok \in BOOLEAN :
        IF ~ok THEN LdCatch([ld EXCEPT !.readFailed = TRUE]) /\ UNCHANGED <<token, user, bg>>
        ELSE
          LET l == [ld EXCEPT !.storedUser = store.user_data,
                              !.timeRemaining = getTokenTimeRemaining(ld.storedToken, now)]
          IN
          IF l.storedToken # NoToken /\ l.storedUser # NoStr THEN
              IF useStoredDirectly(l.timeRemaining)
              THEN LdAdoptStored(l, "direct", TRUE)
              ELSE IF l.storedRefreshToken # NoRefresh
              THEN /\ ld' = [l EXCEPT !.pc = "refresh"]
                   /\ UNCHANGED <<token, user, bg, isLoading>>
              ELSE /\ ld' = [l EXCEPT !.pc = "validate", !.fetches = @ + 1]
                   /\ UNCHANGED <<token, user, bg, isLoading>>
          ELSE LdFinish(l, "none") /\ UNCHANGED <<token, user, bg>>
    /\ UNCHANGED <<store, now, ar>>
    /\ UNCHANGED <<opVars, walkVars, rateVars>>

\* line 191: await refreshAccessToken(storedRefreshToken)
LoadRefresh ==
    /\ ld.pc = "refresh"
    /\ \E a \in RefreshAnswers :
        LET r == refreshAccessToken(ld.storedRefreshToken, a)
            l == [ld EXCEPT !.netCalls = @ + 1,
                            !.serverOk = @ \/ a.type = "ok",
                            !.lastType = a.type,
                            !.lastStatus = a.status]
        IN
        IF r.kind = "value"
        THEN /\ ld' = [l EXCEPT !.pc = "fetch_new", !.newTokens = r.tokens,
                                !.fetches = @ + 1]
             /\ UNCHANGED <<token, user, bg, isLoading>>
        ELSE IF r.kind = "null"
        THEN /\ ld' = [l EXCEPT !.pc = "del_token"]
             /\ UNCHANGED <<token, user, bg, isLoading>>
        ELSE LdRefreshNetworkError(l)
    /\ UNCHANGED <<store, now, ar>>
    /\ UNCHANGED <<opVars, walkVars, rateVars>>

\* line 195: await fetchUserProfile(newTokens.accessToken)
LoadFetchNew ==
    /\ ld.pc = "fetch_new"
    /\ \E a \in ProfileAnswers :
        LET f == fetchUserProfile(a)
            l == [ld EXCEPT !.netCalls = @ + 1,
                            !.serverOk = @ \/ a.type = "ok",
                            !.lastType = a.type,
                            !.lastStatus = a.status]
        IN
        IF f.kind = "value"
        THEN /\ ld' = [l EXCEPT !.pc = "store_token", !.validatedUser = f.user]
             /\ UNCHANGED <<token, user, bg, isLoading>>
        ELSE IF f.kind = "null"
        THEN /\ ld' = [l EXCEPT !.pc = "del_token"]
             /\ UNCHANGED <<token, user, bg, isLoading>>
        ELSE LdRefreshNetworkError(l)
    /\ UNCHANGED <<store, now, ar>>
    /\ UNCHANGED <<opVars, walkVars, rateVars>>

\* lines 199-206: the three awaited writes, then setToken / setUser
LoadStore ==
    /\ ld.pc \in {"store_token", "store_refresh", "store_user"}
    /\ \E ok \in BOOLEAN :
        IF ~ok
        THEN LdCatch([ld EXCEPT !.writeFailed = TRUE]) /\ UNCHANGED <<token, user, store>>
        ELSE IF ld.pc = "store_token"
        THEN /\ store' = [store EXCEPT !.auth_token = ld.newTokens.accessToken]
             /\ ld' = [ld EXCEPT !.pc = "store_refresh"]
             /\ UNCHANGED <<token, user, isLoading>>
        ELSE IF ld.pc = "store_refresh"
        THEN /\ store' = [store EXCEPT !.refresh_token = ld.newTokens.refreshToken]
             /\ ld' = [ld EXCEPT !.pc = "store_user"]
             /\ UNCHANGED <<token, user, isLoading>>
        ELSE /\ store' = [store EXCEPT !.user_data = JSONstringify(ld.validatedUser)]
             /\ token' = ld.newTokens.accessToken
             /\ user' = ld.validatedUser
             /\ LdFinish(ld, "refreshed")
    /\ UNCHANGED <<now, bg, ar>>
    /\ UNCHANGED <<opVars, walkVars, rateVars>>

\* line 228: await fetchUserProfile(storedToken), no refresh token stored
LoadValidate ==
    /\ ld.pc = "validate"
    /\ \E a \in ProfileAnswers :
        LET f == fetchUserProfile(a)
            l == [ld EXCEPT !.netCalls = @ + 1,
                            !.serverOk = @ \/ a.type = "ok",
                            !.lastType = a.type,
                            !.lastStatus = a.status]
        IN
        IF f.kind = "value"
        THEN /\ token' = l.storedToken
             /\ user' = f.user
             /\ ld' = [l EXCEPT !.pc = "validate_store", !.validatedUser = f.user]
             /\ UNCHANGED <<bg, isLoading>>
        ELSE IF f.kind = "null"
        THEN /\ ld' = [l EXCEPT !.pc = "del_token"]
             /\ UNCHANGED <<token, user, bg, isLoading>>
        ELSE IF offlineToleratedNoRefresh(l.timeRemaining)
        THEN LdAdoptStored(l, "offline", FALSE)
        ELSE LdCatch(l) /\ UNCHANGED <<token, user, bg>>
    /\ UNCHANGED <<store, now, ar>>
    /\ UNCHANGED <<opVars, walkVars, rateVars>>

\* line 233: await storage.setItem(USER_KEY, ...)
LoadValidateStore ==
    /\ ld.pc = "validate_store"
    /\ \E ok \in BOOLEAN :
        IF ok
        THEN /\ store' = [store EXCEPT !.user_data = JSONstringify(ld.validatedUser)]
             /\ LdFinish(ld, "validated")
        ELSE LdCatch([ld EXCEPT !.writeFailed = TRUE]) /\ UNCHANGED store
    /\ UNCHANGED <<token, user, now, bg, ar>>
    /\ UNCHANGED <<opVars, walkVars, rateVars>>

\* lines 212, 236, 253: await clearStoredAuth(), then the finally
LoadClear ==
    /\ ld.pc \in ClearPcs
    /\ \E ok \in BOOLEAN :
        LET c == clearStoredAuth(ld.pc, store, ok)
            l == [ld EXCEPT !.delFailed = @ \/ ~ok]
        IN
        /\ store' = c.store
        /\ IF c.next = "return"
           THEN LdFinish(l, IF l.path = "none" THEN "cleared" ELSE l.path)
           ELSE ld' = [l EXCEPT !.pc = c.next] /\ UNCHANGED isLoading
    /\ UNCHANGED <<token, user, now, bg, ar>>
    /\ UNCHANGED <<opVars, walkVars, rateVars>>

\* the promise of loadStoredAuth() has settled and its locals are gone
LoadDone ==
    /\ ld.pc = "done"
    /\ ld' = [LdInit EXCEPT !.pc = "mounted"]
    /\ UNCHANGED <<token, user, isLoading, store, now, bg, ar>>
    /\ UNCHANGED <<opVars, walkVars, rateVars>>

(* ------------------- background profile validation -------------------- *)
\* a background validation that logs out when the profile is refused
BgFetchLogout ==
    /\ bg.pc = "fetch"
    /\ \E a \in ProfileAnswers :
        LET f == fetchUserProfile(a) IN
        IF f.kind = "value"
        THEN /\ bg' = [bg EXCEPT !.pc = "store", !.validatedUser = f.user]
             /\ UNCHANGED <<token, user>>
        ELSE IF f.kind = "null"
        THEN /\ bg' = [BgInit EXCEPT !.pc = "settled", !.result = "ignored"]
             /\ token' = NoToken
             /\ user' = NoUser
        ELSE /\ bg' = [BgInit EXCEPT !.pc = "settled", !.result = "ignored"]
             /\ UNCHANGED <<token, user>>
    /\ UNCHANGED <<isLoading, store, now, ld, ar>>
    /\ UNCHANGED <<opVars, walkVars, rateVars>>

\* lines 174-181: fetchUserProfile(storedToken).then(...).catch(() => {})
BgFetch ==
    /\ bg.pc = "fetch"
    /\ \E a \in ProfileAnswers :
        LET f == fetchUserProfile(a) IN
        bg' = IF f.kind = "value"
              THEN [bg EXCEPT !.pc = "store", !.validatedUser = f.user]
              ELSE [BgInit EXCEPT !.pc = "settled", !.result = "ignored"]
    /\ UNCHANGED <<token, user, isLoading, store, now, ld, ar>>
    /\ UNCHANGED <<opVars, walkVars, rateVars>>

\* line 176-177: await storage.setItem(USER_KEY, ...); setUser(validatedUser)
BgStore ==
    /\ bg.pc = "store"
    /\ \E ok \in BOOLEAN :
        IF ok
        THEN /\ store' = [store EXCEPT !.user_data = JSONstringify(bg.validatedUser)]
             /\ user' = bg.validatedUser
             /\ bg' = [BgInit EXCEPT !.pc = "settled", !.result = "updated"]
        ELSE /\ UNCHANGED <<store, user>>
             /\ bg' = [BgInit EXCEPT !.pc = "settled", !.result = "ignored"]
    /\ UNCHANGED <<token, isLoading, now, ld, ar>>
    /\ UNCHANGED <<opVars, walkVars, rateVars>>


(* ----------------------- authenticatedRequest ------------------------- *)
NoError == [type |-> "none", status |-> 0, attempt |-> 0]
NETWORK_ERROR == [type |-> "network_error", status |-> 0, attempt |-> 0]
NotAuthenticated == [type |-> "not_authenticated", status |-> 0, attempt |-> 0]
StorageError == [type |-> "storage", status |-> 0, attempt |-> 0]

\* the error a rejected requestFn raises, tagged with the execution it is from
RequestError(a, n) == [type |-> a.type, status |-> a.status, attempt |-> n]

ArInit ==
    [pc |-> "idle",
     currentToken |-> NoToken, storedRefreshToken |-> NoRefresh,
     newTokens |-> NoTokens,
     error |-> NoError,        \* the error caught at line 305
     outcome |-> "none",       \* "returned" or "threw"
     raised |-> NoError,       \* the error raised to the caller
     attempt |-> 0,            \* the execution whose result was returned
     startToken |-> NoToken,   \* token when the invocation started
     authAtStart |-> FALSE,    \* isAuthenticated when the invocation started
     expiring |-> FALSE,       \* line 280 held
     preRefresh |-> "none",    \* result kind of the pre-flight refresh
     preStatus |-> 200,        \* HTTP status of the pre-flight refresh answer
     reRefresh |-> "none",     \* result kind of the reactive refresh
     delFailed |-> FALSE,      \* a deleteItem of clearStoredAuth threw
     log |-> << >>,            \* network steps in the order they were taken
     answers |-> << >>,        \* what each execution of requestFn was answered
     used |-> << >>]           \* the token each execution of requestFn got

\* a test that takes every HTTP error answer for a 401
is401AnyStatus(e) == e.type = "axios" /\ e.status # 0

\* line 307: axios.isAxiosError(error) && error.response?.status === 401
is401(e) == e.type = "axios" /\ e.status = 401

\* a retry that reuses the token of the first execution
retryTokenStale(newTokens, currentToken) == currentToken

\* line 321: the token the retry is issued with
retryToken(newTokens, currentToken) == newTokens.accessToken

ArThrow(i, a, e) ==
    ar' = [ar EXCEPT ![i] = [a EXCEPT !.pc = "done", !.outcome = "threw", !.raised = e]]

ArReturn(i, a, n) ==
    ar' = [ar EXCEPT ![i] = [a EXCEPT !.pc = "done", !.outcome = "returned", !.attempt = n]]

\* no other invocation is in flight and restore has finished
Quiet == ld.pc = "mounted" /\ \A j \in Callers : ar[j].pc = "idle"

\* lines 273-284, up to the first await
ARBegin(i) ==
    LET a == [ar[i] EXCEPT !.startToken = token, !.authAtStart = isAuthenticated] IN
    IF token = NoToken THEN ArThrow(i, a, NotAuthenticated)
    ELSE IF isTokenExpiredOrExpiring(token, TOKEN_REFRESH_BUFFER_SECONDS, now)
    THEN ar' = [ar EXCEPT ![i] = [a EXCEPT !.pc = "pre_get", !.currentToken = token,
                                            !.expiring = TRUE]]
    ELSE ar' = [ar EXCEPT ![i] = [a EXCEPT !.pc = "request", !.currentToken = token]]

\* an invocation whose requestFn is a single request
ARStart(i) ==
    /\ Quiet
    /\ mg.pc = "idle"
    /\ ARBegin(i)
    /\ UNCHANGED <<token, user, isLoading, store, now, ld, bg>>
    /\ UNCHANGED <<opVars, walkVars, rateVars>>

\* an invocation that starts while another one is in flight
ARStartConcurrent(i) ==
    /\ ld.pc = "mounted"
    /\ ar[i].pc = "idle"
    /\ mg.pc = "idle"
    /\ ARBegin(i)
    /\ UNCHANGED <<token, user, isLoading, store, now, ld, bg>>
    /\ UNCHANGED <<opVars, walkVars, rateVars>>

\* line 284: await storage.getItem(REFRESH_TOKEN_KEY)
ARPreGet(i) ==
    /\ ar[i].pc = "pre_get"
    /\ \E ok \in BOOLEAN :
        IF ~ok THEN ArThrow(i, ar[i], StorageError)
        ELSE IF store.refresh_token # NoRefresh
        THEN ar' = [ar EXCEPT ![i].pc = "pre_refresh",
                              ![i].storedRefreshToken = store.refresh_token]
        ELSE ar' = [ar EXCEPT ![i].pc = "request"]
    /\ UNCHANGED <<token, user, isLoading, store, now, ld, bg>>
    /\ UNCHANGED <<opVars, walkVars, rateVars>>

\* line 287: await refreshAccessToken(storedRefreshToken)
ARPreRefresh(i) ==
    /\ ar[i].pc = "pre_refresh"
    /\ \E ans \in RefreshAnswers :
        LET r == refreshAccessToken(ar[i].storedRefreshToken, ans)
            a == [ar[i] EXCEPT !.preRefresh = r.kind, !.preStatus = ans.status,
                               !.log = Append(@, "pre")]
        IN
        IF r.kind = "value"
        THEN ar' = [ar EXCEPT ![i] = [a EXCEPT !.pc = "pre_set_token", !.newTokens = r.tokens]]
        ELSE IF r.kind = "null"
        THEN ar' = [ar EXCEPT ![i] = [a EXCEPT !.pc = "request"]]
        ELSE ArThrow(i, a, NETWORK_ERROR)
    /\ UNCHANGED <<token, user, isLoading, store, now, ld, bg>>
    /\ UNCHANGED <<opVars, walkVars, rateVars>>

\* lines 291-295
ARPreStore(i) ==
    /\ ar[i].pc \in {"pre_set_token", "pre_set_refresh"}
    /\ \E ok \in BOOLEAN :
        IF ~ok THEN ArThrow(i, ar[i], StorageError) /\ UNCHANGED <<token, store>>
        ELSE IF ar[i].pc = "pre_set_token"
        THEN /\ store' = [store EXCEPT !.auth_token = ar[i].newTokens.accessToken]
             /\ ar' = [ar EXCEPT ![i].pc = "pre_set_refresh"]
             /\ UNCHANGED token
        ELSE /\ store' = [store EXCEPT !.refresh_token = ar[i].newTokens.refreshToken]
             /\ token' = ar[i].newTokens.accessToken
             /\ ar' = [ar EXCEPT ![i].pc = "request",
                                 ![i].currentToken = ar[i].newTokens.accessToken]
    /\ UNCHANGED <<user, isLoading, now, ld, bg>>
    /\ UNCHANGED <<opVars, walkVars, rateVars>>

\* lines 304-307: the promise of requestFn(currentToken) settles with ans
ARRequestSettled(i, ans) ==
    LET a == [ar[i] EXCEPT !.log = Append(@, "req"),
                           !.answers = Append(@, ans),
                           !.used = Append(@, ar[i].currentToken)]
        e == RequestError(ans, 1)
    IN
    IF ans.type = "ok" THEN ArReturn(i, a, 1)
    ELSE IF is401(e)
    THEN ar' = [ar EXCEPT ![i] = [a EXCEPT !.pc = "re_get", !.error = e]]
    ELSE ArThrow(i, [a EXCEPT !.error = e], e)

\* lines 304-307: await requestFn(currentToken), requestFn a single request
ARRequest(i) ==
    /\ ar[i].pc = "request"
    /\ mg.pc = "idle"
    /\ \E ans \in RequestAnswers : ARRequestSettled(i, ans)
    /\ UNCHANGED <<token, user, isLoading, store, now, ld, bg>>
    /\ UNCHANGED <<opVars, walkVars, rateVars>>

\* lines 308-310: await storage.getItem(REFRESH_TOKEN_KEY)
ARReGet(i) ==
    /\ ar[i].pc = "re_get"
    /\ \E ok \in BOOLEAN :
        IF ~ok THEN ArThrow(i, ar[i], StorageError)
        ELSE IF store.refresh_token # NoRefresh
        THEN ar' = [ar EXCEPT ![i].pc = "re_refresh",
                              ![i].storedRefreshToken = store.refresh_token]
        ELSE ArThrow(i, ar[i], ar[i].error)
    /\ UNCHANGED <<token, user, isLoading, store, now, ld, bg>>
    /\ UNCHANGED <<opVars, walkVars, rateVars>>

\* line 312: await refreshAccessToken(storedRefreshToken)
ARReRefresh(i) ==
    /\ ar[i].pc = "re_refresh"
    /\ \E ans \in RefreshAnswers :
        LET r == refreshAccessToken(ar[i].storedRefreshToken, ans)
            a == [ar[i] EXCEPT !.reRefresh = r.kind, !.log = Append(@, "re")]
        IN
        IF r.kind = "value"
        THEN ar' = [ar EXCEPT ![i] = [a EXCEPT !.pc = "re_set_token", !.newTokens = r.tokens]]
        ELSE IF r.kind = "null"
        THEN ar' = [ar EXCEPT ![i] = [a EXCEPT !.pc = "del_token"]]
        ELSE ArThrow(i, a, NETWORK_ERROR)
    /\ UNCHANGED <<token, user, isLoading, store, now, ld, bg>>
    /\ UNCHANGED <<opVars, walkVars, rateVars>>

\* lines 316-318
ARReStore(i) ==
    /\ ar[i].pc \in {"re_set_token", "re_set_refresh"}
    /\ \E ok \in BOOLEAN :
        IF ~ok THEN ArThrow(i, ar[i], StorageError) /\ UNCHANGED <<token, store>>
        ELSE IF ar[i].pc = "re_set_token"
        THEN /\ store' = [store EXCEPT !.auth_token = ar[i].newTokens.accessToken]
             /\ ar' = [ar EXCEPT ![i].pc = "re_set_refresh"]
             /\ UNCHANGED token
        ELSE /\ store' = [store EXCEPT !.refresh_token = ar[i].newTokens.refreshToken]
             /\ token' = ar[i].newTokens.accessToken
             /\ ar' = [ar EXCEPT ![i].pc = "retry"]
    /\ UNCHANGED <<user, isLoading, now, ld, bg>>
    /\ UNCHANGED <<opVars, walkVars, rateVars>>

\* line 321: the promise of requestFn(newTokens.accessToken) settles with ans
ARRetrySettled(i, ans) ==
    LET a == [ar[i] EXCEPT !.log = Append(@, "retry"),
                           !.answers = Append(@, ans),
                           !.used = Append(@, retryToken(ar[i].newTokens,
                                                         ar[i].currentToken))]
    IN
    IF ans.type = "ok" THEN ArReturn(i, a, 2)
    ELSE ArThrow(i, a, RequestError(ans, 2))

\* a retry whose 401 falls into the refresh again
ARRetryLoop(i) ==
    /\ ar[i].pc = "retry"
    /\ mg.pc = "idle"
    /\ \E ans \in RequestAnswers :
        LET a == [ar[i] EXCEPT !.log = Append(@, "retry"),
                               !.answers = Append(@, ans),
                               !.used = Append(@, retryToken(ar[i].newTokens,
                                                             ar[i].currentToken))]
        IN
        IF ans.type = "ok" THEN ArReturn(i, a, 2)
        ELSE IF is401(RequestError(ans, 2))
        THEN ar' = [ar EXCEPT ![i] = [a EXCEPT !.pc = "re_get"]]
        ELSE ArThrow(i, a, RequestError(ans, 2))
    /\ UNCHANGED <<token, user, isLoading, store, now, ld, bg>>
    /\ UNCHANGED <<opVars, walkVars, rateVars>>

\* line 321: return await requestFn(newTokens.accessToken), a single request
ARRetry(i) ==
    /\ ar[i].pc = "retry"
    /\ mg.pc = "idle"
    /\ \E ans \in RequestAnswers : ARRetrySettled(i, ans)
    /\ UNCHANGED <<token, user, isLoading, store, now, ld, bg>>
    /\ UNCHANGED <<opVars, walkVars, rateVars>>

\* lines 325-331: await clearStoredAuth(); setToken(null); setUser(null); throw error
ARClear(i) ==
    /\ ar[i].pc \in ClearPcs
    /\ \E ok \in BOOLEAN :
        LET c == clearStoredAuth(ar[i].pc, store, ok)
            a == [ar[i] EXCEPT !.delFailed = @ \/ ~ok]
        IN
        /\ store' = c.store
        /\ IF c.next = "return"
           THEN /\ token' = NoToken
                /\ user' = NoUser
                /\ ArThrow(i, a, a.error)
           ELSE /\ ar' = [ar EXCEPT ![i] = [a EXCEPT !.pc = c.next]]
                /\ UNCHANGED <<token, user>>
    /\ UNCHANGED <<isLoading, now, ld, bg>>
    /\ UNCHANGED <<opVars, walkVars, rateVars>>

\* the caller has taken the result or the error
ARDone(i) ==
    /\ ar[i].pc = "done"
    /\ mg.pc = "idle"
    /\ ar' = [ar EXCEPT ![i] = ArInit]
    /\ UNCHANGED <<token, user, isLoading, store, now, ld, bg>>
    /\ UNCHANGED <<opVars, walkVars, rateVars>>

(* --------------------- login, register, logout ------------------------ *)
\* What POST /auth/login is answered: 2xx with or without tokens in the
\* body, an AxiosError, or another error.
LoginAnswers ==
    { [type |-> "ok", status |-> 200, access |-> t, refresh |-> r] :
        t \in IssuedTokens \cup {NoToken}, r \in RefreshTokens \cup {NoRefresh} }
    \cup { [type |-> "axios", status |-> s, access |-> NoToken, refresh |-> NoRefresh] :
        s \in ErrorStatuses }
    \cup { [type |-> "other", status |-> 0, access |-> NoToken, refresh |-> NoRefresh] }

\* What POST /auth/register is answered: axios resolves on every 2xx status.
RegisterAnswers ==
    { [type |-> "ok", status |-> s] : s \in {200, 201, 204} }
    \cup { [type |-> "axios", status |-> s] : s \in ErrorStatuses }
    \cup { [type |-> "other", status |-> 0] }

\* the in-memory session and the three stored keys
Snapshot == [token |-> token, user |-> user, store |-> store]

NoSnapshot == [token |-> NoToken, user |-> NoUser, store |-> EmptyStore]

LiInit ==
    [pc |-> "idle",
     accessToken |-> NoToken, refreshToken |-> NoRefresh, userProfile |-> NoUser,
     outcome |-> "none",       \* "true", "false" or "threw"
     caller |-> "none",        \* "screen" or "register"
     before |-> NoSnapshot,    \* session and stored keys when login was called
     tokenIssued |-> FALSE,    \* line 425 passed: the token request succeeded
     profile |-> "none",       \* result kind of fetchUserProfile
     writeFailed |-> FALSE]    \* a setItem threw

RgInit ==
    [pc |-> "idle",
     outcome |-> "none",       \* "true", "false" or "threw"
     created |-> FALSE,        \* POST /auth/register was answered 2xx
     login |-> "none"]         \* what the login that register awaited returned

LoInit ==
    [pc |-> "idle",
     outcome |-> "none",       \* "returned" or "threw"
     delFailed |-> FALSE,      \* a deleteItem of clearStoredAuth threw
     before |-> NoSnapshot,    \* session and stored keys when logout was called
     prev |-> "none"]          \* the operation that ended last: "logout",
                               \* "logout_failed" (a deletion failed), or "none"

\* no operation of the provider is in flight
OpsQuiet ==
    /\ Quiet
    /\ bg.pc \notin {"fetch", "store"}
    /\ li.pc = "idle" /\ rg.pc = "idle" /\ lo.pc = "idle"
    /\ mg.pc = "idle"

\* a login whose catch lets an error of the secure store escape
LiCatchStorageEscapes(l, e) ==
    /\ li' = [l EXCEPT !.pc = "done",
                       !.outcome = IF e = "storage" THEN "threw" ELSE "false"]
    /\ isLoading' = FALSE

\* lines 450-463: catch (error) { Alert...; return false } finally { ... }
LiCatch(l, e) ==
    /\ li' = [l EXCEPT !.pc = "done", !.outcome = "false"]
    /\ isLoading' = FALSE

\* lines 407-420, up to the first await
LoginBegin(who) ==
    /\ isLoading' = TRUE
    /\ li' = [LiInit EXCEPT !.pc = "post", !.caller = who, !.before = Snapshot]

\* the login screen calls login(email, password)
LoginStart ==
    /\ OpsQuiet
    /\ LoginBegin("screen")
    /\ lo' = [lo EXCEPT !.prev = "none"]
    /\ UNCHANGED <<token, user, store, now, ld, bg, ar, rg>>
    /\ UNCHANGED <<walkVars, rateVars>>

\* lines 411-427: await axios.post(.../auth/login)
LoginPost ==
    /\ li.pc = "post"
    /\ \E ans \in LoginAnswers :
        IF ans.type # "ok" THEN LiCatch(li, ans.type)
        ELSE IF ans.access = NoToken THEN LiCatch(li, "other")
        ELSE /\ li' = [li EXCEPT !.pc = "set_token", !.accessToken = ans.access,
                                 !.refreshToken = ans.refresh, !.tokenIssued = TRUE]
             /\ UNCHANGED isLoading
    /\ UNCHANGED <<token, user, store, now, ld, bg, ar, rg, lo>>
    /\ UNCHANGED <<walkVars, rateVars>>

\* lines 430-433: await storage.setItem(TOKEN_KEY), setItem(REFRESH_TOKEN_KEY)
LoginStoreTokens ==
    /\ li.pc \in {"set_token", "set_refresh"}
    /\ \E ok \in BOOLEAN :
        IF ~ok
        THEN LiCatch([li EXCEPT !.writeFailed = TRUE], "storage") /\ UNCHANGED store
        ELSE IF li.pc = "set_token"
        THEN /\ store' = [store EXCEPT !.auth_token = li.accessToken]
             /\ li' = [li EXCEPT !.pc = IF li.refreshToken # NoRefresh
                                        THEN "set_refresh" ELSE "fetch"]
             /\ UNCHANGED isLoading
        ELSE /\ store' = [store EXCEPT !.refresh_token = li.refreshToken]
             /\ li' = [li EXCEPT !.pc = "fetch"]
             /\ UNCHANGED isLoading
    /\ UNCHANGED <<token, user, now, ld, bg, ar, rg, lo>>
    /\ UNCHANGED <<walkVars, rateVars>>

\* lines 436-439: await fetchUserProfile(accessToken)
LoginFetch ==
    /\ li.pc = "fetch"
    /\ \E a \in ProfileAnswers :
        LET f == fetchUserProfile(a)
            l == [li EXCEPT !.profile = f.kind]
        IN
        IF f.kind = "value"
        THEN /\ li' = [l EXCEPT !.pc = "set_user", !.userProfile = f.user]
             /\ UNCHANGED isLoading
        ELSE LiCatch(l, IF f.kind = "throw" THEN "network_error" ELSE "other")
    /\ UNCHANGED <<token, user, store, now, ld, bg, ar, rg, lo>>
    /\ UNCHANGED <<walkVars, rateVars>>

\* lines 442-449: await storage.setItem(USER_KEY); setToken; setUser; return true
LoginStoreUser ==
    /\ li.pc = "set_user"
    /\ \E ok \in BOOLEAN :
        IF ~ok
        THEN /\ LiCatch([li EXCEPT !.writeFailed = TRUE], "storage")
             /\ UNCHANGED <<token, user, store>>
        ELSE /\ store' = [store EXCEPT !.user_data = JSONstringify(li.userProfile)]
             /\ token' = li.accessToken
             /\ user' = li.userProfile
             /\ isLoading' = FALSE
             /\ li' = [li EXCEPT !.pc = "done", !.outcome = "true"]
    /\ UNCHANGED <<now, ld, bg, ar, rg, lo>>
    /\ UNCHANGED <<walkVars, rateVars>>

\* the screen has taken the result of login
LoginDone ==
    /\ li.pc = "done"
    /\ li.caller = "screen"
    /\ li' = LiInit
    /\ UNCHANGED <<token, user, isLoading, store, now, ld, bg, ar, rg, lo>>
    /\ UNCHANGED <<walkVars, rateVars>>

\* lines 466-470, up to the first await
RegisterBegin ==
    /\ isLoading' = TRUE
    /\ rg' = [RgInit EXCEPT !.pc = "post"]

\* the register screen calls register(username, email, password): line 468
RegisterStart ==
    /\ OpsQuiet
    /\ RegisterBegin
    /\ lo' = [lo EXCEPT !.prev = "none"]
    /\ UNCHANGED <<token, user, store, now, ld, bg, ar, li>>
    /\ UNCHANGED <<walkVars, rateVars>>

\* lines 470-500: await axios.post(.../auth/register), then login or return
RegisterPost ==
    /\ rg.pc = "post"
    /\ \E ans \in RegisterAnswers :
        IF ans.type = "ok" /\ ans.status \in {200, 201}
        THEN /\ rg' = [rg EXCEPT !.pc = "login", !.created = TRUE]
             /\ LoginBegin("register")
        ELSE IF ans.type = "ok"
        THEN /\ rg' = [rg EXCEPT !.pc = "done", !.created = TRUE, !.outcome = "true"]
             /\ isLoading' = FALSE
             /\ UNCHANGED li
        ELSE /\ rg' = [rg EXCEPT !.pc = "done", !.outcome = "false"]
             /\ isLoading' = FALSE
             /\ UNCHANGED li
    /\ UNCHANGED <<token, user, store, now, ld, bg, ar, lo>>
    /\ UNCHANGED <<walkVars, rateVars>>

\* lines 483-484 and the finally of line 498: login has returned to register
RegisterLogin ==
    /\ rg.pc = "login"
    /\ li.pc = "done"
    /\ li.caller = "register"
    /\ rg' = [rg EXCEPT !.pc = "done", !.login = li.outcome, !.outcome = li.outcome]
    /\ li' = LiInit
    /\ isLoading' = FALSE
    /\ UNCHANGED <<token, user, store, now, ld, bg, ar, lo>>
    /\ UNCHANGED <<walkVars, rateVars>>

\* the screen has taken the result of register
RegisterDone ==
    /\ rg.pc = "done"
    /\ rg' = RgInit
    /\ UNCHANGED <<token, user, isLoading, store, now, ld, bg, ar, li, lo>>
    /\ UNCHANGED <<walkVars, rateVars>>

\* lines 503-508, up to the first await
LogoutStart ==
    /\ OpsQuiet
    /\ isLoading' = TRUE
    /\ lo' = [lo EXCEPT !.pc = "del_token", !.before = Snapshot]
    /\ UNCHANGED <<token, user, store, now, ld, bg, ar, li, rg>>
    /\ UNCHANGED <<walkVars, rateVars>>

\* logout is called while a request or the background validation is in flight
LogoutStartInFlight ==
    /\ ld.pc = "mounted"
    /\ li.pc = "idle" /\ rg.pc = "idle" /\ lo.pc = "idle" /\ mg.pc = "idle"
    /\ isAuthenticated
    /\ isLoading' = TRUE
    /\ lo' = [lo EXCEPT !.pc = "del_token", !.before = Snapshot]
    /\ UNCHANGED <<token, user, store, now, ld, bg, ar, li, rg>>
    /\ UNCHANGED <<walkVars, rateVars>>

\* a logout whose clearStoredAuth lets the error of a deletion escape
LogoutClearRaises ==
    /\ lo.pc \in ClearPcs
    /\ \E ok \in BOOLEAN :
        LET c == clearStoredAuth(lo.pc, store, ok)
            l == [lo EXCEPT !.delFailed = @ \/ ~ok]
        IN
        /\ store' = c.store
        /\ IF ~ok
           THEN /\ UNCHANGED <<token, user>>
                /\ isLoading' = FALSE
                /\ lo' = [l EXCEPT !.pc = "done", !.outcome = "threw"]
           ELSE IF c.next = "return"
           THEN /\ token' = NoToken
                /\ user' = NoUser
                /\ isLoading' = FALSE
                /\ lo' = [l EXCEPT !.pc = "done", !.outcome = "returned"]
           ELSE /\ lo' = [l EXCEPT !.pc = c.next]
                /\ UNCHANGED <<token, user, isLoading>>
    /\ UNCHANGED <<now, ld, bg, ar, li, rg>>
    /\ UNCHANGED <<walkVars, rateVars>>

\* lines 508-517: await clearStoredAuth(); setToken(null); setUser(null); finally
LogoutClear ==
    /\ lo.pc \in ClearPcs
    /\ \E ok \in BOOLEAN :
        LET c == clearStoredAuth(lo.pc, store, ok)
            l == [lo EXCEPT !.delFailed = @ \/ ~ok]
        IN
        /\ store' = c.store
        /\ IF c.next = "return"
           THEN /\ token' = NoToken
                /\ user' = NoUser
                /\ isLoading' = FALSE
                /\ lo' = [l EXCEPT !.pc = "done", !.outcome = "returned"]
           ELSE /\ lo' = [l EXCEPT !.pc = c.next]
                /\ UNCHANGED <<token, user, isLoading>>
    /\ UNCHANGED <<now, ld, bg, ar, li, rg>>
    /\ UNCHANGED <<walkVars, rateVars>>

\* the caller has taken the result of logout
LogoutDone ==
    /\ lo.pc = "done"
    /\ lo' = [LoInit EXCEPT !.prev = IF lo.delFailed THEN "logout_failed" ELSE "logout"]
    /\ UNCHANGED <<token, user, isLoading, store, now, ld, bg, ar, li, rg>>
    /\ UNCHANGED <<walkVars, rateVars>>

(* ------------------------- guest walk migration ----------------------- *)
\* A pending guest walk, told apart by the length of routeCoordinates.
NoWalk == [present |-> FALSE, coords |-> 0]

Walks == { [present |-> TRUE, coords |-> c] : c \in 0..MaxCoords }

\* What a POST under /walks is answered: axios resolves on every 2xx status
\* and rejects otherwise.
WalkAnswers ==
    { [type |-> "ok", status |-> s] : s \in {200, 204} }
    \cup { [type |-> "axios", status |-> s] : s \in ErrorStatuses }
    \cup { [type |-> "other", status |-> 0] }

\* new Error('Failed to create walk') of line 547
FailedToCreateWalk == [type |-> "other", status |-> 0]

MgInit ==
    [pc |-> "idle",
     caller |-> 1,           \* the authenticatedRequest invocation it runs in
     step |-> "create",      \* position inside the request function
     coords |-> 0,           \* walkData.routeCoordinates.length
     result |-> "none",      \* "true", "false" or "threw"
     reqs |-> << >>]         \* the requests issued, in order, with their success

\* the screen: isMigrating, the pending walk of the guest walk context (state
\* and AsyncStorage), and what the screen has seen and done so far
ScInit ==
    [pc |-> "idle",
     screen |-> "login",       \* "login" or "register"
     mounted |-> TRUE,
     isMigrating |-> FALSE,
     pendingWalk |-> NoWalk,   \* useState pendingWalk
     stored |-> NoWalk,        \* AsyncStorage pending_guest_walk
     guestInfo |-> FALSE,      \* AsyncStorage guest_user_info is present
     runs |-> 0,               \* migrations this screen has started
     last |-> "none",          \* what the last migration returned
     everTrue |-> FALSE,       \* some migration returned true
     removed |-> FALSE,        \* the screen removed the pending walk
     clearFailed |-> FALSE]    \* a removeItem threw

hasPendingWalk == sc.pendingWalk.present

\* the request function rejects with e, or resolves (e.type = "ok")
MgSettle(i, e) ==
    IF ar[i].pc = "request" THEN ARRequestSettled(i, e) ELSE ARRetrySettled(i, e)

MgLog(s, good) == Append(mg.reqs, [step |-> s, ok |-> good])

\* lines 520-527: if (!token) return false; then authenticatedRequest begins
MigrateBegin(w) ==
    IF token = NoToken
    THEN /\ mg' = [MgInit EXCEPT !.pc = "done", !.coords = w.coords, !.result = "false"]
         /\ UNCHANGED ar
    ELSE /\ mg' = [MgInit EXCEPT !.pc = "wrapped", !.coords = w.coords]
         /\ ARBegin(MgInit.caller)

\* a request function that goes on to the track upload whatever the create
\* request was answered
MgCreateContinues(i) ==
    /\ mg.pc = "wrapped" /\ mg.caller = i /\ mg.step = "create"
    /\ ar[i].pc \in {"request", "retry"}
    /\ \E ans \in WalkAnswers :
        /\ mg' = [mg EXCEPT !.reqs = MgLog("create", ans.type = "ok" /\ ans.status \in {200, 201}),
                            !.step = IF mg.coords > 0 THEN "track" ELSE "stop"]
        /\ UNCHANGED ar
    /\ UNCHANGED <<token, user, isLoading, store, now, ld, bg, sc>>
    /\ UNCHANGED <<opVars, rateVars>>

\* lines 529-550: await axios.post(.../walks)
MgCreate(i) ==
    /\ mg.pc = "wrapped" /\ mg.caller = i /\ mg.step = "create"
    /\ ar[i].pc \in {"request", "retry"}
    /\ \E ans \in WalkAnswers :
        IF ans.type = "ok" /\ ans.status \in {200, 201}
        THEN /\ mg' = [mg EXCEPT !.reqs = MgLog("create", TRUE),
                                 !.step = IF mg.coords > 0 THEN "track" ELSE "stop"]
             /\ UNCHANGED ar
        ELSE /\ mg' = [mg EXCEPT !.reqs = MgLog("create", FALSE)]
             /\ MgSettle(i, IF ans.type = "ok" THEN FailedToCreateWalk ELSE ans)
    /\ UNCHANGED <<token, user, isLoading, store, now, ld, bg, sc>>
    /\ UNCHANGED <<opVars, rateVars>>

\* lines 553-570: await axios.post(.../walks/{id}/track); a resolved answer
\* with a status other than 200/201 is only warned about
MgTrack(i) ==
    /\ mg.pc = "wrapped" /\ mg.caller = i /\ mg.step = "track"
    /\ ar[i].pc \in {"request", "retry"}
    /\ \E ans \in WalkAnswers :
        IF ans.type = "ok"
        THEN /\ mg' = [mg EXCEPT !.reqs = MgLog("track", TRUE), !.step = "stop"]
             /\ UNCHANGED ar
        ELSE /\ mg' = [mg EXCEPT !.reqs = MgLog("track", FALSE), !.step = "create"]
             /\ MgSettle(i, ans)
    /\ UNCHANGED <<token, user, isLoading, store, now, ld, bg, sc>>
    /\ UNCHANGED <<opVars, rateVars>>

\* lines 573-593: await axios.post(.../walks/{id}/stop); return true
MgStop(i) ==
    /\ mg.pc = "wrapped" /\ mg.caller = i /\ mg.step = "stop"
    /\ ar[i].pc \in {"request", "retry"}
    /\ \E ans \in WalkAnswers :
        /\ mg' = [mg EXCEPT !.reqs = MgLog("stop", ans.type = "ok"), !.step = "create"]
        /\ MgSettle(i, IF ans.type = "ok" THEN [type |-> "ok", status |-> 200] ELSE ans)
    /\ UNCHANGED <<token, user, isLoading, store, now, ld, bg, sc>>
    /\ UNCHANGED <<opVars, rateVars>>

\* lines 527 and 595-601: authenticatedRequest has returned or thrown
MigrateReturn ==
    /\ mg.pc = "wrapped"
    /\ ar[mg.caller].pc = "done"
    /\ mg' = [mg EXCEPT !.pc = "done",
                        !.result = IF ar[mg.caller].outcome = "returned"
                                   THEN "true" ELSE "false"]
    /\ ar' = [ar EXCEPT ![mg.caller] = ArInit]
    /\ UNCHANGED <<token, user, isLoading, store, now, ld, bg, sc>>
    /\ UNCHANGED <<opVars, rateVars>>

\* login.tsx lines 180-187 and 219-225: the effect runs handleMigration
ScreenEffect ==
    /\ sc.mounted /\ sc.pc = "idle"
    /\ isAuthenticated /\ ~sc.isMigrating
    /\ OpsQuiet
    /\ IF hasPendingWalk
       THEN /\ sc.runs < MaxRuns
            /\ sc' = [sc EXCEPT !.pc = "migrating", !.isMigrating = TRUE,
                                !.runs = @ + 1]
            /\ MigrateBegin(sc.pendingWalk)
       ELSE /\ sc' = [sc EXCEPT !.mounted = FALSE]
            /\ UNCHANGED <<mg, ar>>
    /\ UNCHANGED <<token, user, isLoading, store, now, ld, bg>>
    /\ UNCHANGED <<opVars, rateVars>>

\* a screen that clears the pending walk whatever the migration returned
ScreenMigratedAlwaysClears ==
    /\ sc.pc = "migrating"
    /\ mg.pc = "done"
    /\ mg' = MgInit
    /\ sc' = [sc EXCEPT !.last = mg.result, !.everTrue = @ \/ mg.result = "true",
                        !.pc = "clear_walk"]
    /\ UNCHANGED <<token, user, isLoading, store, now, ld, bg, ar>>
    /\ UNCHANGED <<opVars, rateVars>>

\* login.tsx lines 190-218: migrationSuccess = await migrateRef.current(...)
ScreenMigrated ==
    /\ sc.pc = "migrating"
    /\ mg.pc = "done"
    /\ mg' = MgInit
    /\ LET s == [sc EXCEPT !.last = mg.result, !.everTrue = @ \/ mg.result = "true"] IN
       sc' = IF mg.result = "true"
             THEN [s EXCEPT !.pc = "clear_walk"]
             ELSE [s EXCEPT !.pc = "idle", !.isMigrating = FALSE]
    /\ UNCHANGED <<token, user, isLoading, store, now, ld, bg, ar>>
    /\ UNCHANGED <<opVars, rateVars>>

\* login.tsx lines 193-194: await clearPendingWalk(); await clearGuestUserInfo()
\* (part_001 lines 102-105 and 171-174), then the finally of line 216
ScreenClear ==
    /\ sc.pc \in {"clear_walk", "clear_info"}
    /\ \E ok \in BOOLEAN :
        sc' = IF ~ok
              THEN [sc EXCEPT !.pc = "idle", !.isMigrating = FALSE, !.clearFailed = TRUE]
              ELSE IF sc.pc = "clear_walk"
              THEN [sc EXCEPT !.pc = "clear_info", !.stored = NoWalk,
                              !.pendingWalk = NoWalk, !.removed = TRUE]
              ELSE [sc EXCEPT !.pc = "idle", !.isMigrating = FALSE, !.guestInfo = FALSE]
    /\ UNCHANGED <<token, user, isLoading, store, now, ld, bg, ar, mg>>
    /\ UNCHANGED <<opVars, rateVars>>

\* the OK button of an alert: router.replace leaves the screen
ScreenLeave ==
    /\ sc.mounted /\ sc.pc = "idle"
    /\ sc.last # "none"
    /\ sc' = [sc EXCEPT !.mounted = FALSE]
    /\ UNCHANGED <<token, user, isLoading, store, now, ld, bg, ar, mg>>
    /\ UNCHANGED <<opVars, rateVars>>

(* ----------------------------- rate limiter --------------------------- *)
\* CONFIG of rate-limiter.ts, in milliseconds
maxFailedAttempts == 5

baseCooldownMs == 1000

maxCooldownMs == 60000

lockoutDurationMs == 5 * 60 * 1000

resetAfterMs == 15 * 60 * 1000

\* lockedUntil: null
NoLock == 0

\* the state getState creates and resetRateLimit restores
resetRateLimit == [failedAttempts |-> 0, lastAttemptTime |-> 0, lockedUntil |-> NoLock]

Min(a, b) == IF a <= b THEN a ELSE b

\* a backoff that doubles from the first failure on
calculateCooldownDoubled(failedAttempts) ==
    IF failedAttempts = 0 THEN 0
    ELSE Min(baseCooldownMs * 2^failedAttempts, maxCooldownMs)

\* lines 50-56
calculateCooldown(failedAttempts) ==
    IF failedAttempts = 0 THEN 0
    ELSE Min(baseCooldownMs * 2^(failedAttempts - 1), maxCooldownMs)

\* lines 167-176: Math.ceil(ms / 1000) seconds, or minutes from 60 seconds on
formatWaitTime(ms) ==
    LET seconds == (ms + 999) \div 1000 IN
    IF seconds < 60
    THEN [n |-> seconds, unit |-> "second"]
    ELSE [n |-> (seconds + 59) \div 60, unit |-> "minute"]

NoWaitText == [n |-> 0, unit |-> "none"]

\* { allowed: true, waitMs: 0, message: '' }
Allowed == [allowed |-> TRUE, waitMs |-> 0, message |-> "", wait |-> NoWaitText]

\* lines 62-103: the result of checkRateLimit at time t and the state it leaves
checkRateLimit(state, t) ==
    IF state.lastAttemptTime > 0 /\ t - state.lastAttemptTime > resetAfterMs
    THEN [state |-> resetRateLimit, res |-> Allowed]
    ELSE IF state.lockedUntil # NoLock /\ t < state.lockedUntil
    THEN [state |-> state,
          res |-> [allowed |-> FALSE, waitMs |-> state.lockedUntil - t,
                   message |-> "Too many failed attempts",
                   wait |-> formatWaitTime(state.lockedUntil - t)]]
    ELSE IF state.failedAttempts > 0
            /\ t - state.lastAttemptTime < calculateCooldown(state.failedAttempts)
    THEN LET waitMs == calculateCooldown(state.failedAttempts)
                       - (t - state.lastAttemptTime)
         IN [state |-> state,
             res |-> [allowed |-> FALSE, waitMs |-> waitMs,
                      message |-> "Please wait", wait |-> formatWaitTime(waitMs)]]
    ELSE [state |-> state, res |-> Allowed]

\* a limiter that locks one failure early
recordFailedAttemptEarlyLock(state, t) ==
    [failedAttempts |-> state.failedAttempts + 1,
     lastAttemptTime |-> t,
     lockedUntil |-> IF state.failedAttempts + 2 >= maxFailedAttempts
                     THEN t + lockoutDurationMs ELSE state.lockedUntil]

\* lines 108-123
recordFailedAttempt(state, t) ==
    [failedAttempts |-> state.failedAttempts + 1,
     lastAttemptTime |-> t,
     lockedUntil |-> IF state.failedAttempts + 1 >= maxFailedAttempts
                     THEN t + lockoutDurationMs ELSE state.lockedUntil]

\* a success that zeroes the count and leaves the lockout running
recordSuccessfulAttemptKeepsLock(state) ==
    [resetRateLimit EXCEPT !.lockedUntil = state.lockedUntil]

\* lines 128-130: recordSuccessfulAttempt calls resetRateLimit
recordSuccessfulAttempt(state) == resetRateLimit

\* the state of one action key, the last call made on it and its result
RlInit ==
    [state |-> resetRateLimit,
     op |-> "none",          \* "check", "fail", "success" or "reset": the last call
     prev |-> "none",        \* the call made before the last one
     at |-> 0,               \* Date.now() of the last call
     pre |-> resetRateLimit, \* the state the last call found
     res |-> Allowed,        \* what the last checkRateLimit returned
     waits |-> 0]            \* the waits made so far

\* the gaps between two calls
Gaps == {1, baseCooldownMs, lockoutDurationMs, resetAfterMs}

\* checkRateLimit(action)
RlCheck ==
    /\ LET c == checkRateLimit(rl.state, clock) IN
       rl' = [rl EXCEPT !.state = c.state, !.res = c.res, !.op = "check",
                        !.prev = rl.op, !.at = clock, !.pre = rl.state]
    /\ UNCHANGED <<token, user, isLoading, store, now, ld, bg, ar, clock>>
    /\ UNCHANGED <<opVars, walkVars, hs, tc>>

\* recordFailedAttempt(action)
RlRecordFailed ==
    /\ rl.state.failedAttempts < MaxFails
    /\ rl' = [rl EXCEPT !.state = recordFailedAttempt(rl.state, clock), !.op = "fail",
                        !.prev = rl.op, !.at = clock, !.pre = rl.state]
    /\ UNCHANGED <<token, user, isLoading, store, now, ld, bg, ar, clock>>
    /\ UNCHANGED <<opVars, walkVars, hs, tc>>

\* lines 128-130: recordSuccessfulAttempt(action)
RlRecordSuccess ==
    /\ rl' = [rl EXCEPT !.state = recordSuccessfulAttempt(rl.state), !.op = "success",
                        !.prev = rl.op, !.at = clock, !.pre = rl.state]
    /\ UNCHANGED <<token, user, isLoading, store, now, ld, bg, ar, clock>>
    /\ UNCHANGED <<opVars, walkVars, hs, tc>>

\* lines 135-141: resetRateLimit(action), called on its own
RlReset ==
    /\ rl.op # "reset"
    /\ rl' = [rl EXCEPT !.state = resetRateLimit, !.op = "reset",
                        !.prev = rl.op, !.at = clock, !.pre = rl.state]
    /\ UNCHANGED <<token, user, isLoading, store, now, ld, bg, ar, clock>>
    /\ UNCHANGED <<opVars, walkVars, hs, tc>>

\* time passes between two calls
RlWait ==
    /\ rl.waits < MaxWaits
    /\ \E d \in Gaps : clock' = clock + d
    /\ rl' = [rl EXCEPT !.waits = @ + 1]
    /\ UNCHANGED <<token, user, isLoading, store, now, ld, bg, ar>>
    /\ UNCHANGED <<opVars, walkVars, hs, tc>>

(* ------------------------- token clock alone -------------------------- *)
TcInit ==
    [pc |-> "input",         \* "expired": the first function was applied; "applied"
     token |-> NoToken, now |-> 0, buffer |-> 0,
     expired |-> TRUE,       \* isTokenExpiredOrExpiring(token, buffer)
     remaining |-> NullTime, \* getTokenTimeRemaining(token)
     adopt |-> FALSE]        \* the test of loadStoredAuth, line 168

\* The inputs tried: the buffers isTokenExpiredOrExpiring is called with,
\* two times of the call, and tokens of every shape decodeJWT tells apart
\* (exp 0 stands for no exp claim) whose exp - now lies around every buffer
\* or long in the past.
ClockInputs ==
    LET Buffers == {0, 1, TOKEN_REFRESH_BUFFER_SECONDS}
        ClockTimes == {StartTime, StartTime + 1}
        ClockOffsets ==
            { b + d : b \in Buffers, d \in (0 - MaxShift)..MaxShift }
            \cup { 0 - b + d : b \in Buffers, d \in (0 - MaxShift)..MaxShift }
        ClockTokens ==
            { [id |-> 1, segs |-> sg, json |-> j, exp |-> e] :
                sg \in {2, 3}, j \in BOOLEAN,
                e \in {0} \cup { n + k : n \in ClockTimes, k \in ClockOffsets } }
    IN { [TcInit EXCEPT !.token = t, !.now = n, !.buffer = b] :
           t \in ClockTokens, n \in ClockTimes, b \in Buffers }

\* lines 101-114 applied to the input
ClockExpired ==
    /\ tc.pc = "input" /\ tc.token # NoToken
    /\ tc' = [tc EXCEPT !.pc = "expired",
                        !.expired = isTokenExpiredOrExpiring(tc.token, tc.buffer, tc.now)]
    /\ UNCHANGED <<token, user, isLoading, store, now, ld, bg, ar, rl, clock, hs>>
    /\ UNCHANGED <<opVars, walkVars>>

\* lines 119-128 applied to the input, and the test of line 168 on its result
ClockRemaining ==
    /\ tc.pc = "expired"
    /\ LET r == getTokenTimeRemaining(tc.token, tc.now) IN
       tc' = [tc EXCEPT !.pc = "applied", !.remaining = r,
                        !.adopt = useStoredDirectly(r)]
    /\ UNCHANGED <<token, user, isLoading, store, now, ld, bg, ar, rl, clock, hs>>
    /\ UNCHANGED <<opVars, walkVars>>

\* another token, time and buffer
ClockAgain ==
    /\ tc.pc = "applied"
    /\ tc' \in ClockInputs
    /\ UNCHANGED <<token, user, isLoading, store, now, ld, bg, ar, rl, clock, hs>>
    /\ UNCHANGED <<opVars, walkVars>>

(* ------------------- login and register submissions ------------------- *)
\* validation.ts
PASSWORD_MIN_LENGTH == 8

PASSWORD_MAX_LENGTH == 128

\* validateEmail: an e-mail input is known by the length of its trimmed
\* text and by whether the trimmed text matches EMAIL_REGEX
validateEmail(email) ==
    IF email.length = 0 THEN FALSE
    ELSE IF ~email.matches THEN FALSE
    ELSE IF email.length > 254 THEN FALSE
    ELSE TRUE

\* a validation without the minimum length
validatePasswordNoMinimum(password) ==
    IF password = 0 THEN FALSE
    ELSE IF password > PASSWORD_MAX_LENGTH THEN FALSE
    ELSE TRUE

\* validatePassword: a password is known by its length
validatePassword(password) ==
    IF password = 0 THEN FALSE
    ELSE IF password < PASSWORD_MIN_LENGTH THEN FALSE
    ELSE IF password > PASSWORD_MAX_LENGTH THEN FALSE
    ELSE TRUE

\* validateLoginForm(email, password).isValid
validateLoginForm(email, password) == validateEmail(email) /\ validatePassword(password)

HsInit ==
    [pc |-> "idle",            \* "await": login or register is awaited; "done"
     screen |-> "none",        \* "login" or "register"
     password |-> 8,           \* the length of the password submitted
     valid |-> TRUE,           \* what the form validation answered
     gate |-> "none",          \* "allowed" or "denied": what checkRateLimit answered
     pre |-> resetRateLimit,   \* the rate-limit state when the form was submitted
     called |-> FALSE,         \* login or register has been called
     outcome |-> "none",       \* what login or register returned
     records |-> <<>>,         \* the record calls made: "fail" or "success"
     n |-> 0]                  \* the submissions handled so far

\* updateRateLimitStatus, lines 153-167: one more checkRateLimit
updateRateLimitStatus(r, t) ==
    LET c == checkRateLimit(r.state, t) IN
    [r EXCEPT !.state = c.state, !.res = c.res, !.op = "check", !.prev = r.op,
              !.at = t, !.pre = r.state]

\* the rate limiter after the checkRateLimit of the handler
HsChecked ==
    LET c == checkRateLimit(rl.state, clock) IN
    [rl EXCEPT !.state = c.state, !.res = c.res, !.op = "check", !.prev = rl.op,
               !.at = clock, !.pre = rl.state]

\* lines 230-235: the action is denied
HsDenied(h) ==
    /\ rl' = updateRateLimitStatus(HsChecked, clock)
    /\ hs' = [h EXCEPT !.pc = "done", !.gate = "denied"]
    /\ UNCHANGED <<isLoading, li, rg>>

\* handleLogin, lines 227-237, up to the await of login
handleLogin(h) ==
    IF ~HsChecked.res.allowed
    THEN HsDenied(h)
    ELSE /\ rl' = HsChecked
         /\ hs' = [h EXCEPT !.pc = "await", !.gate = "allowed", !.called = TRUE]
         /\ LoginBegin("screen")
         /\ UNCHANGED rg

\* handleRegister of register.tsx, lines 277-287, up to the await of register
handleRegister(h) ==
    IF ~HsChecked.res.allowed
    THEN HsDenied(h)
    ELSE /\ rl' = HsChecked
         /\ hs' = [h EXCEPT !.pc = "await", !.gate = "allowed", !.called = TRUE]
         /\ RegisterBegin
         /\ UNCHANGED li

\* LoginForm.handleSubmit, lines 50-64, and the handleLogin it calls
SubmitLogin ==
    /\ hs.pc = "idle" /\ hs.screen = "login"
    /\ OpsQuiet /\ ~isAuthenticated
    /\ rl.state.failedAttempts < MaxFails /\ hs.n < MaxSubmits
    /\ \E email \in {[length |-> 0, matches |-> FALSE], [length |-> 5, matches |-> FALSE],
                     [length |-> 6, matches |-> TRUE], [length |-> 255, matches |-> TRUE]},
          password \in {0, 7, 8, 128, 129} :
        LET h == [hs EXCEPT !.password = password, !.pre = rl.state, !.n = @ + 1,
                            !.valid = validateLoginForm(email, password)]
        IN IF ~validateLoginForm(email, password)
           THEN /\ hs' = [h EXCEPT !.pc = "done"]
                /\ UNCHANGED <<isLoading, li, rg, rl>>
           ELSE handleLogin(h)
    /\ lo' = [lo EXCEPT !.prev = "none"]
    /\ UNCHANGED <<token, user, store, now, ld, bg, ar, walkVars, clock, tc>>

\* RegisterForm.handleSubmit has validated the form: handleRegister
SubmitRegister ==
    /\ hs.pc = "idle" /\ hs.screen = "register"
    /\ OpsQuiet /\ ~isAuthenticated
    /\ rl.state.failedAttempts < MaxFails /\ hs.n < MaxSubmits
    /\ handleRegister([hs EXCEPT !.pre = rl.state, !.n = @ + 1])
    /\ lo' = [lo EXCEPT !.prev = "none"]
    /\ UNCHANGED <<token, user, store, now, ld, bg, ar, walkVars, clock, tc>>

\* a handler that records nothing when login has returned false
LoginReturnedDropsFailure ==
    /\ hs.pc = "await" /\ hs.screen = "login"
    /\ li.pc = "done" /\ li.caller = "screen"
    /\ IF li.outcome = "true"
       THEN /\ rl' = [rl EXCEPT !.state = recordSuccessfulAttempt(rl.state),
                                !.op = "success", !.prev = rl.op, !.at = clock,
                                !.pre = rl.state]
            /\ hs' = [hs EXCEPT !.pc = "done", !.outcome = li.outcome,
                                !.records = Append(@, "success")]
       ELSE /\ hs' = [hs EXCEPT !.pc = "done", !.outcome = li.outcome]
            /\ UNCHANGED rl
    /\ li' = LiInit
    /\ UNCHANGED <<token, user, isLoading, store, now, ld, bg, ar, rg, lo, walkVars, clock, tc>>

\* handleLogin, lines 237-264: login has returned
LoginReturned ==
    /\ hs.pc = "await" /\ hs.screen = "login"
    /\ li.pc = "done" /\ li.caller = "screen"
    /\ IF li.outcome = "true"
       THEN /\ rl' = [rl EXCEPT !.state = recordSuccessfulAttempt(rl.state),
                                !.op = "success", !.prev = rl.op, !.at = clock,
                                !.pre = rl.state]
            /\ hs' = [hs EXCEPT !.pc = "done", !.outcome = li.outcome,
                                !.records = Append(@, "success")]
       ELSE IF li.outcome = "false"
       THEN /\ rl' = updateRateLimitStatus(
                       [rl EXCEPT !.state = recordFailedAttempt(rl.state, clock),
                                  !.op = "fail"], clock)
            /\ hs' = [hs EXCEPT !.pc = "done", !.outcome = li.outcome,
                                !.records = Append(@, "fail")]
       ELSE /\ hs' = [hs EXCEPT !.pc = "done", !.outcome = li.outcome]
            /\ UNCHANGED rl
    /\ li' = LiInit
    /\ UNCHANGED <<token, user, isLoading, store, now, ld, bg, ar, rg, lo, walkVars, clock, tc>>

\* handleRegister of register.tsx, lines 287-300: register has returned
RegisterReturned ==
    /\ hs.pc = "await" /\ hs.screen = "register"
    /\ rg.pc = "done"
    /\ IF rg.outcome = "true"
       THEN /\ rl' = [rl EXCEPT !.state = recordSuccessfulAttempt(rl.state),
                                !.op = "success", !.prev = rl.op, !.at = clock,
                                !.pre = rl.state]
            /\ hs' = [hs EXCEPT !.pc = "done", !.outcome = rg.outcome,
                                !.records = Append(@, "success")]
       ELSE IF rg.outcome = "false"
       THEN /\ rl' = updateRateLimitStatus(
                       [rl EXCEPT !.state = recordFailedAttempt(rl.state, clock),
                                  !.op = "fail"], clock)
            /\ hs' = [hs EXCEPT !.pc = "done", !.outcome = rg.outcome,
                                !.records = Append(@, "fail")]
       ELSE /\ hs' = [hs EXCEPT !.pc = "done", !.outcome = rg.outcome]
            /\ UNCHANGED rl
    /\ rg' = RgInit
    /\ UNCHANGED <<token, user, isLoading, store, now, ld, bg, ar, li, lo, walkVars, clock, tc>>

\* the handler is over
SubmitDone ==
    /\ hs.pc = "done"
    /\ hs' = [HsInit EXCEPT !.screen = hs.screen, !.n = hs.n]
    /\ UNCHANGED <<token, user, isLoading, store, now, ld, bg, ar, rl, clock>>
    /\ UNCHANGED <<opVars, walkVars, tc>>

\* the timer of updateRateLimitStatus fires between two submissions
SubmitTimer ==
    /\ hs.pc = "idle" /\ rl.op # "check"
    /\ rl' = updateRateLimitStatus(rl, clock)
    /\ UNCHANGED <<token, user, isLoading, store, now, ld, bg, ar, clock, hs>>
    /\ UNCHANGED <<opVars, walkVars, tc>>

\* time passes between two submissions or while the network answers
SubmitWait ==
    /\ hs.pc \in {"idle", "await"}
    /\ li.pc \in {"idle", "post"} /\ rg.pc \in {"idle", "post"}
    /\ rl.waits < MaxSubmitWaits
    /\ \E d \in Gaps : clock' = clock + d
    /\ rl' = [rl EXCEPT !.waits = @ + 1]
    /\ UNCHANGED <<token, user, isLoading, store, now, ld, bg, ar, hs>>
    /\ UNCHANGED <<opVars, walkVars, tc>>

(* ------------------------------ clock --------------------------------- *)
\* Date.now() is read at lines 109 and 126 only, when loadStoredAuth decides
\* and when authenticatedRequest starts: time passing in between is not seen.
Tick ==
    /\ ld.pc = "read_token" \/ Quiet
    /\ now < StartTime + MaxTick
    /\ now' = now + 1
    /\ UNCHANGED <<token, user, isLoading, store, ld, bg, ar>>
    /\ UNCHANGED <<opVars, walkVars, rateVars>>

(* -------------------------- specification ----------------------------- *)
\* What a previous run of the app may have left in the secure store.
InitialStores ==
    [auth_token : TokensOf({1}) \cup {NoToken},
     refresh_token : {NoRefresh, 1},
     user_data : {NoStr, CorruptStr, JSONstringify(1)}]

Init ==
    /\ token = NoToken
    /\ user = NoUser
    /\ isLoading = TRUE
    /\ store \in InitialStores
    /\ now = StartTime
    /\ ld = LdInit
    /\ bg = BgInit
    /\ ar = [i \in Callers |-> ArInit]
    /\ li = LiInit
    /\ rg = RgInit
    /\ lo = LoInit
    /\ mg = MgInit
    /\ sc = ScInit
    /\ rl = RlInit
    /\ clock = StartClock
    /\ hs = HsInit
    /\ tc = TcInit

Next ==
    \/ LoadRead
    \/ LoadDecide
    \/ LoadRefresh
    \/ LoadFetchNew
    \/ LoadStore
    \/ LoadValidate
    \/ LoadValidateStore
    \/ LoadClear
    \/ LoadDone
    \/ BgFetch
    \/ BgStore
    \/ \E i \in Callers : ARStart(i)
    \/ \E i \in Callers : ARPreGet(i)
    \/ \E i \in Callers : ARPreRefresh(i)
    \/ \E i \in Callers : ARPreStore(i)
    \/ \E i \in Callers : ARRequest(i)
    \/ \E i \in Callers : ARReGet(i)
    \/ \E i \in Callers : ARReRefresh(i)
    \/ \E i \in Callers : ARReStore(i)
    \/ \E i \in Callers : ARRetry(i)
    \/ \E i \in Callers : ARClear(i)
    \/ \E i \in Callers : ARDone(i)
    \/ Tick

Spec == Init /\ [][Next]_vars

\* The provider with its operations login, register and logout, called one
\* at a time once the restore on mount has finished.
NextSession ==
    \/ LoadRead
    \/ LoadDecide
    \/ LoadRefresh
    \/ LoadFetchNew
    \/ LoadStore
    \/ LoadValidate
    \/ LoadValidateStore
    \/ LoadClear
    \/ LoadDone
    \/ BgFetch
    \/ BgStore
    \/ LoginStart
    \/ LoginPost
    \/ LoginStoreTokens
    \/ LoginFetch
    \/ LoginStoreUser
    \/ LoginDone
    \/ RegisterStart
    \/ RegisterPost
    \/ RegisterLogin
    \/ RegisterDone
    \/ LogoutStart
    \/ LogoutClear
    \/ LogoutDone

SpecSession == Init /\ [][NextSession]_vars

\* Every awaited network or storage call settles: a step that waits for one
\* is taken in the end. The calls of login, register and logout by the user
\* are under no such obligation.
FairSession ==
    /\ WF_vars(LoadRead) /\ WF_vars(LoadDecide) /\ WF_vars(LoadRefresh)
    /\ WF_vars(LoadFetchNew) /\ WF_vars(LoadStore) /\ WF_vars(LoadValidate)
    /\ WF_vars(LoadValidateStore) /\ WF_vars(LoadClear) /\ WF_vars(LoadDone)
    /\ WF_vars(BgFetch) /\ WF_vars(BgStore)
    /\ WF_vars(LoginPost) /\ WF_vars(LoginStoreTokens) /\ WF_vars(LoginFetch)
    /\ WF_vars(LoginStoreUser)
    /\ WF_vars(RegisterPost) /\ WF_vars(RegisterLogin)
    /\ WF_vars(LogoutClear)

\* The restore on mount and then one call of login, register or logout,
\* followed to its end.
NextSessionOnce ==
    \/ LoadRead
    \/ LoadDecide
    \/ LoadRefresh
    \/ LoadFetchNew
    \/ LoadStore
    \/ LoadValidate
    \/ LoadValidateStore
    \/ LoadClear
    \/ LoadDone
    \/ BgFetch
    \/ BgStore
    \/ LoginStart
    \/ LoginPost
    \/ LoginStoreTokens
    \/ LoginFetch
    \/ LoginStoreUser
    \/ RegisterStart
    \/ RegisterPost
    \/ RegisterLogin
    \/ LogoutStart
    \/ LogoutClear

SpecSessionFair == Init /\ [][NextSessionOnce]_vars /\ FairSession

\* The login or register screen right after a login or registration has
\* succeeded: the session is authenticated, its token and profile are
\* stored, and a guest walk may be pending.
InitMigrate ==
    /\ token \in IssuedTokens
    /\ user = 1
    /\ isLoading = FALSE
    /\ \E r \in {NoRefresh, 1} :
         store = [auth_token |-> token, refresh_token |-> r,
                  user_data |-> JSONstringify(user)]
    /\ now = StartTime
    /\ ld = [LdInit EXCEPT !.pc = "mounted"]
    /\ bg = BgInit
    /\ ar = [i \in Callers |-> ArInit]
    /\ li = LiInit
    /\ rg = RgInit
    /\ lo = LoInit
    /\ mg = MgInit
    /\ \E s \in {"login", "register"}, w \in Walks \cup {NoWalk} :
         sc = [ScInit EXCEPT !.screen = s, !.pendingWalk = w, !.stored = w,
                             !.guestInfo = w.present]
    /\ rl = RlInit
    /\ clock = StartClock
    /\ hs = HsInit
    /\ tc = TcInit

NextMigrate ==
    \/ ScreenEffect
    \/ \E i \in Callers : ARPreGet(i)
    \/ \E i \in Callers : ARPreRefresh(i)
    \/ \E i \in Callers : ARPreStore(i)
    \/ \E i \in Callers : MgCreate(i)
    \/ \E i \in Callers : MgTrack(i)
    \/ \E i \in Callers : MgStop(i)
    \/ \E i \in Callers : ARReGet(i)
    \/ \E i \in Callers : ARReRefresh(i)
    \/ \E i \in Callers : ARReStore(i)
    \/ \E i \in Callers : ARClear(i)
    \/ MigrateReturn
    \/ ScreenMigrated
    \/ ScreenClear
    \/ ScreenLeave

SpecMigrate == InitMigrate /\ [][NextMigrate]_vars

\* The login or register screen of a signed-out user: each submission goes
\* through the form validation and the rate limiter to login or register.
InitGate ==
    /\ token = NoToken
    /\ user = NoUser
    /\ isLoading = FALSE
    /\ store = EmptyStore
    /\ now = StartTime
    /\ ld = [LdInit EXCEPT !.pc = "mounted"]
    /\ bg = BgInit
    /\ ar = [i \in Callers |-> ArInit]
    /\ li = LiInit
    /\ rg = RgInit
    /\ lo = LoInit
    /\ mg = MgInit
    /\ sc = ScInit
    /\ rl = RlInit
    /\ clock = StartClock
    /\ \E s \in {"login", "register"} : hs = [HsInit EXCEPT !.screen = s]
    /\ tc = TcInit

NextGate ==
    \/ SubmitLogin
    \/ SubmitRegister
    \/ LoginPost
    \/ LoginStoreTokens
    \/ LoginFetch
    \/ LoginStoreUser
    \/ LoginReturned
    \/ RegisterPost
    \/ RegisterLogin
    \/ RegisterReturned
    \/ SubmitDone
    \/ SubmitTimer
    \/ SubmitWait

SpecGate == InitGate /\ [][NextGate]_vars

\* A signed-in session in which two invocations of authenticatedRequest run
\* at the same time, each of them once, followed through the pre-flight
\* refresh up to the answer of the request: an invocation answered 401 is
\* left at the start of its reactive refresh.
InitConcurrent ==
    /\ token \in IssuedTokens
    /\ user = 1
    /\ isLoading = FALSE
    /\ store = [auth_token |-> token, refresh_token |-> 1,
                user_data |-> JSONstringify(user)]
    /\ now = StartTime
    /\ ld = [LdInit EXCEPT !.pc = "mounted"]
    /\ bg = BgInit
    /\ ar = [i \in {1, 2} |-> ArInit]
    /\ li = LiInit
    /\ rg = RgInit
    /\ lo = LoInit
    /\ mg = MgInit
    /\ sc = ScInit
    /\ rl = RlInit
    /\ clock = StartClock
    /\ hs = HsInit
    /\ tc = TcInit

NextConcurrent ==
    \/ \E i \in {1, 2} : ARStartConcurrent(i)
    \/ \E i \in {1, 2} : ARPreGet(i)
    \/ \E i \in {1, 2} : ARPreRefresh(i)
    \/ \E i \in {1, 2} : ARPreStore(i)
    \/ \E i \in {1, 2} : ARRequest(i)

SpecConcurrent == InitConcurrent /\ [][NextConcurrent]_vars

\* A signed-in session in which logout is called once, at any moment of one
\* authenticatedRequest and of the background validation that restore left.
InitLogoutRace ==
    /\ token \in IssuedTokens
    /\ user = 1
    /\ isLoading = FALSE
    /\ store = [auth_token |-> token, refresh_token |-> 1,
                user_data |-> JSONstringify(user)]
    /\ now = StartTime
    /\ ld = [LdInit EXCEPT !.pc = "mounted"]
    /\ bg = IF isTokenExpiredOrExpiring(token, TOKEN_REFRESH_BUFFER_SECONDS, now)
            THEN BgInit
            ELSE [BgInit EXCEPT !.pc = "fetch", !.accessToken = token]
    /\ ar = [i \in Callers |-> ArInit]
    /\ li = LiInit
    /\ rg = RgInit
    /\ lo = LoInit
    /\ mg = MgInit
    /\ sc = ScInit
    /\ rl = RlInit
    /\ clock = StartClock
    /\ hs = HsInit
    /\ tc = TcInit

NextLogoutRace ==
    \/ BgFetch
    \/ BgStore
    \/ ARStart(1)
    \/ ARPreGet(1)
    \/ ARPreRefresh(1)
    \/ ARPreStore(1)
    \/ ARRequest(1)
    \/ ARReGet(1)
    \/ ARReRefresh(1)
    \/ ARReStore(1)
    \/ ARRetry(1)
    \/ ARClear(1)
    \/ LogoutStartInFlight
    \/ LogoutClear

SpecLogoutRace == InitLogoutRace /\ [][NextLogoutRace]_vars

\* The token clock alone, applied to tokens, times and buffers.
InitClock ==
    /\ token = NoToken
    /\ user = NoUser
    /\ isLoading = TRUE
    /\ store = EmptyStore
    /\ now = StartTime
    /\ ld = LdInit
    /\ bg = BgInit
    /\ ar = [i \in Callers |-> ArInit]
    /\ li = LiInit
    /\ rg = RgInit
    /\ lo = LoInit
    /\ mg = MgInit
    /\ sc = ScInit
    /\ rl = RlInit
    /\ clock = StartClock
    /\ hs = HsInit
    /\ tc \in ClockInputs

NextClock ==
    \/ ClockExpired
    \/ ClockRemaining
    \/ ClockAgain

SpecClock == InitClock /\ [][NextClock]_vars

\* The rate limiter alone: the module keeps its state apart from the
\* provider, whose variables stay as they are at the start.
InitRate ==
    /\ token = NoToken
    /\ user = NoUser
    /\ isLoading = TRUE
    /\ store = EmptyStore
    /\ now = StartTime
    /\ ld = LdInit
    /\ bg = BgInit
    /\ ar = [i \in Callers |-> ArInit]
    /\ li = LiInit
    /\ rg = RgInit
    /\ lo = LoInit
    /\ mg = MgInit
    /\ sc = ScInit
    /\ rl = RlInit
    /\ clock = StartClock
    /\ hs = HsInit
    /\ tc = TcInit

NextRate ==
    \/ RlCheck
    \/ RlRecordFailed
    \/ RlRecordSuccess
    \/ RlReset
    \/ RlWait

SpecRate == InitRate /\ [][NextRate]_vars


(* ======================== authenticatedRequest ======================== *)
Is401Answer(a) == a.type = "axios" /\ a.status = 401

\* C1: whenever the access token is expired-or-expiring and the pre-flight
\* refresh fails for any reason (null result or no HTTP response), the
\* wrapped request is still executed, first with the old access token.
C1_PreflightFailureStillExecutes ==
    \A i \in Callers :
        (ar[i].pc = "done" /\ ar[i].expiring /\ ar[i].preRefresh \in {"null", "throw"})
            => (Len(ar[i].used) >= 1 /\ ar[i].used[1] = ar[i].startToken)

\* C2: whenever the wrapped request fails with 401, a refresh token is
\* stored and the reactive refresh fails for any reason (null result or no
\* HTTP response), the session is destroyed (token and user null, the three
\* keys deleted) and the error raised is the original 401 error.  A key the
\* store itself refused to delete is not held against the code.
C2_ReactiveFailureDestroysSession ==
    \A i \in Callers :
        (ar[i].pc = "done" /\ Is401Answer(ar[i].error)
            /\ ar[i].reRefresh \in {"null", "throw"} /\ ~ar[i].delFailed)
            => /\ token = NoToken
               /\ user = NoUser
               /\ store = EmptyStore
               /\ ar[i].outcome = "threw"
               /\ ar[i].raised = ar[i].error

\* C3: when the wrapped request fails with 401 once, the reactive refresh
\* succeeds and the retried request succeeds, the caller receives the result
\* of the retry, the retry was issued with the newly issued access token, and
\* the in-memory token and the stored auth_token are that new token, the
\* session being still authenticated.
C3_RefreshThenRetrySucceeds ==
    \A i \in Callers :
        (ar[i].pc = "done" /\ Len(ar[i].answers) = 2
            /\ Is401Answer(ar[i].answers[1]) /\ ar[i].reRefresh = "value"
            /\ ar[i].answers[2].type = "ok")
            => /\ ar[i].outcome = "returned"
               /\ ar[i].attempt = 2
               /\ ar[i].used[2] = ar[i].newTokens.accessToken
               /\ ar[i].newTokens.accessToken # NoToken
               /\ token = ar[i].newTokens.accessToken
               /\ store.auth_token = ar[i].newTokens.accessToken
               /\ (ar[i].authAtStart => isAuthenticated)

C3_Witness ==
    \E i \in Callers :
        /\ ar[i].pc = "done" /\ Len(ar[i].answers) = 2
        /\ Is401Answer(ar[i].answers[1]) /\ ar[i].reRefresh = "value"
        /\ ar[i].answers[2].type = "ok"
        /\ ar[i].authAtStart
        /\ ar[i].newTokens.accessToken # ar[i].startToken

\* C4: one invocation executes the wrapped request at most twice and attempts
\* at most one reactive refresh, in the order pre-flight refresh, request,
\* reactive refresh, retry; the invocation ends with the retry, and a 401
\* answer to the retry is raised to the caller.
AllowedLogs ==
    { << >>, <<"pre">>, <<"pre", "req">>, <<"pre", "req", "re">>,
      <<"pre", "req", "re", "retry">>,
      <<"req">>, <<"req", "re">>, <<"req", "re", "retry">> }

C4_SingleRetryInOrder ==
    \A i \in Callers :
        /\ ar[i].log \in AllowedLogs
        /\ Len(ar[i].used) <= 2
        /\ Len(ar[i].answers) = 2 =>
              /\ ar[i].pc = "done"
              /\ Is401Answer(ar[i].answers[2]) =>
                    /\ ar[i].outcome = "threw"
                    /\ ar[i].raised = RequestError(ar[i].answers[2], 2)

C4_Witness ==
    \E i \in Callers :
        /\ ar[i].pc = "done"
        /\ ar[i].log = <<"pre", "req", "re", "retry">>
        /\ Is401Answer(ar[i].answers[2])

\* C5: when the wrapped request fails with an error other than HTTP 401, the
\* step that receives it ends the invocation raising that same error, with no
\* reactive refresh, and leaves token, user and the three stored keys as the
\* pre-flight step left them.
C5_Non401Step(i) ==
    (/\ ar[i].pc = "request"
     /\ Len(ar'[i].answers) = 1
     /\ ar'[i].answers[1].type # "ok"
     /\ ~Is401Answer(ar'[i].answers[1]))
        => /\ ar'[i].pc = "done"
           /\ ar'[i].outcome = "threw"
           /\ ar'[i].raised = RequestError(ar'[i].answers[1], 1)
           /\ ar'[i].reRefresh = "none"
           /\ token' = token
           /\ user' = user
           /\ store' = store

C5_Non401Propagates == [][\A i \in Callers : C5_Non401Step(i)]_vars

C5_Witness ==
    \E i \in Callers :
        /\ ar[i].pc = "done"
        /\ ar[i].preRefresh = "value"
        /\ Len(ar[i].answers) = 1
        /\ ar[i].answers[1].type = "axios" /\ ar[i].answers[1].status = 403
        /\ ar[i].raised = RequestError(ar[i].answers[1], 1)
        /\ isAuthenticated


(* ============================== restore =============================== *)
LdNoResponse == ld.lastType = "axios" /\ ld.lastStatus = 0
LdRefused == ld.lastType = "axios" /\ ld.lastStatus \in {401, 403}
LdStoreFault == ld.readFailed \/ ld.writeFailed \/ ld.delFailed
LdExpired == ld.timeRemaining.null \/ ld.timeRemaining.secs <= 0

\* restore found a stored session whose token has 0 < remaining <= buffer
\* and its last refresh or profile-fetch call has been answered
C6_Case ==
    /\ ld.pc = "done"
    /\ ld.storedToken # NoToken
    /\ ld.storedUser.json
    /\ ~ld.timeRemaining.null
    /\ ld.timeRemaining.secs > 0
    /\ ld.timeRemaining.secs <= TOKEN_REFRESH_BUFFER_SECONDS
    /\ ld.netCalls >= 1
    /\ ~LdStoreFault

\* C6: restore of a stored session whose token has 0 < remaining <= buffer:
\* if the refresh or profile-fetch call gets no HTTP response, restore ends
\* authenticated with the stored token and the stored user; if the call is
\* answered 401/403, restore ends with no session and the stored keys deleted.
C6_OfflineTolerance ==
    /\ (C6_Case /\ LdNoResponse)
          => /\ isAuthenticated
             /\ token = ld.storedToken
             /\ user = JSONparse(ld.storedUser)
    /\ (C6_Case /\ LdRefused)
          => /\ ~isAuthenticated
             /\ token = NoToken
             /\ user = NoUser
             /\ store = EmptyStore

C6_Witness ==
    /\ C6_Case
    /\ LdNoResponse
    /\ ld.storedRefreshToken # NoRefresh
    /\ ld.path = "offline"
    /\ isAuthenticated

C8_Adopted ==
    (ld.pc = "done" /\ ld.storedToken # NoToken /\ ld.storedUser.json
        /\ ~ld.timeRemaining.null
        /\ ld.timeRemaining.secs > TOKEN_REFRESH_BUFFER_SECONDS)
        => /\ isAuthenticated
           /\ token = ld.storedToken
           /\ ld.netCalls = 0

C8_BgStep ==
    (bg.pc \in {"fetch", "store"} /\ bg' # bg)
        => /\ token' = token
           /\ isLoading' = isLoading
           /\ store'.auth_token = store.auth_token
           /\ store'.refresh_token = store.refresh_token
           /\ (store.user_data # NoStr => store'.user_data # NoStr)
           /\ (isAuthenticated => isAuthenticated')
           /\ (user' # user \/ store'.user_data # store.user_data)
                 => /\ bg'.result = "updated"
                    /\ bg.validatedUser # NoUser
                    /\ user' = bg.validatedUser
                    /\ store'.user_data = JSONstringify(bg.validatedUser)

C8_BackgroundValidationHarmless == []C8_Adopted /\ [][C8_BgStep]_vars

C8_Witness ==
    /\ ld.pc = "done"
    /\ ld.path = "direct"
    /\ bg.pc = "settled"
    /\ bg.result = "ignored"
    /\ isAuthenticated

\* C9: when restore reads a stored access token but no stored user profile,
\* it fetches the profile with the stored token and adopts the session if
\* the fetch succeeds.
C9_TokenWithoutProfileIsFetched ==
    (ld.pc = "done" /\ ld.storedToken # NoToken /\ ld.storedUser = NoStr
        /\ ~ld.readFailed)
        => /\ ld.fetches >= 1
           /\ (ld.validatedUser # NoUser /\ ~ld.writeFailed) => isAuthenticated

\* C10: whenever restore catches an unexpected error, it ends with the
\* session destroyed: token and user null, not authenticated, and the three
\* keys deleted (unless the store refused a deletion).
C10_UnexpectedErrorDestroysSession ==
    (ld.pc = "done" /\ ld.caught /\ ~ld.delFailed)
        => /\ token = NoToken
           /\ user = NoUser
           /\ ~isAuthenticated
           /\ store = EmptyStore

(* ====================== login, register, logout ======================= *)
\* C11: a login whose token request succeeds but whose profile fetch fails
\* is rolled back entirely: it returns false and the in-memory session and
\* the stored keys auth_token, refresh_token and user_data are the same as
\* before the call.
C11_FailedLoginRolledBack ==
    (li.pc = "done" /\ li.tokenIssued /\ li.profile \in {"null", "throw"})
        => /\ li.outcome = "false"
           /\ Snapshot = li.before

RestorePaths == {"none", "direct", "offline", "refreshed", "validated", "cleared"}

\* C12: login, register and restore never raise to their caller: whatever
\* the network calls and the storage calls do, login and register end with
\* a boolean and restore ends through its finally with a normal return.
C12_NeverRaise ==
    /\ li.pc = "done" => li.outcome \in {"true", "false"}
    /\ rg.pc = "done" => rg.outcome \in {"true", "false"}
    /\ ld.pc = "done" => (ld.path \in RestorePaths /\ ~isLoading)

\* a login called by register has ended after a storage write failed
C12_Witness ==
    /\ li.pc = "done"
    /\ li.caller = "register"
    /\ li.writeFailed
    /\ li.outcome = "false"

\* C13: whenever register returns true the account was created, the login
\* that follows it returned true and the session is authenticated.
C13_RegisterTrueMeansAuthenticated ==
    (rg.pc = "done" /\ rg.outcome = "true")
        => (rg.created /\ rg.login = "true" /\ isAuthenticated)

\* C14: when logout has returned, it has not raised, the in-memory token
\* and user are null, the three keys are absent unless a deletion failed,
\* and a logout that directly follows a logout leaves the state it found.
C14_LogoutClearsSession ==
    lo.pc = "done"
        => /\ lo.outcome = "returned"
           /\ token = NoToken
           /\ user = NoUser
           /\ ~isAuthenticated
           /\ ~lo.delFailed => store = EmptyStore
           /\ lo.prev = "logout" => Snapshot = lo.before

\* an authenticated session was logged out although a deletion failed
C14_Witness ==
    /\ lo.pc = "done"
    /\ lo.delFailed
    /\ lo.before.token # NoToken
    /\ lo.before.user # NoUser
    /\ lo.before.store.user_data # NoStr

\* a second logout in a row has returned
C14_SecondLogout == lo.pc = "done" /\ lo.prev = "logout"

(* ======================= guest walk migration ========================= *)
\* a request of the finished migration succeeded at step s
MgSucceeded(s) == \E k \in 1..Len(mg.reqs) : mg.reqs[k].step = s /\ mg.reqs[k].ok

\* a request of the finished migration failed at step s
MgFailed(s) == \E k \in 1..Len(mg.reqs) : mg.reqs[k].step = s /\ ~mg.reqs[k].ok

\* C15: migrateGuestWalk returns true if and only if the create-walk step
\* succeeded: a failing track upload or stop call does not change the
\* result from true.
C15_TrueIffCreated ==
    mg.pc = "done" => (mg.result = "true" <=> MgSucceeded("create"))

\* the request issued before request k of the migration
MgPrev(k) == mg.reqs[k - 1]

\* C16: a migration in which no create-walk request succeeded returns false
\* without raising and issues no track or stop request; every track request
\* directly follows a successful create and is issued only for a non-empty
\* route, every stop request directly follows the successful track (or the
\* successful create when the route is empty), and a migration that
\* returns true ends with a stop.
C16_CreateFirstThenTrackThenStop ==
    mg.pc = "done" =>
        /\ mg.result \in {"true", "false"}
        /\ ~MgSucceeded("create") =>
               /\ mg.result = "false"
               /\ \A k \in 1..Len(mg.reqs) : mg.reqs[k].step = "create"
        /\ \A k \in 1..Len(mg.reqs) :
               /\ mg.reqs[k].step = "track" =>
                      /\ mg.coords > 0
                      /\ k > 1
                      /\ MgPrev(k) = [step |-> "create", ok |-> TRUE]
               /\ mg.reqs[k].step = "stop" =>
                      /\ k > 1
                      /\ MgPrev(k) = [step |-> IF mg.coords > 0 THEN "track" ELSE "create",
                                      ok |-> TRUE]
        /\ mg.result = "true" =>
               /\ Len(mg.reqs) >= 2
               /\ mg.reqs[Len(mg.reqs)] = [step |-> "stop", ok |-> TRUE]

\* a migration whose only create request failed has returned false
C16_Witness ==
    /\ mg.pc = "done"
    /\ mg.result = "false"
    /\ mg.reqs = << [step |-> "create", ok |-> FALSE] >>

\* a migration of a walk with a route has returned true
C16_Migrated ==
    /\ mg.pc = "done"
    /\ mg.result = "true"
    /\ mg.coords > 0

\* C17: the pending guest walk is removed by the login or register screen
\* only after a migration of it returned true; after a migration that
\* returned false or raised, and after an exception while clearing, the
\* pending walk is still in the state and in AsyncStorage.
C17_ClearedOnlyAfterTrue ==
    /\ (sc.removed \/ sc.pendingWalk # sc.stored) => sc.everTrue
    /\ (~sc.stored.present \/ ~sc.pendingWalk.present) =>
           (sc.removed \/ sc.runs = 0)
    /\ sc.removed => sc.last = "true"
    /\ (sc.last \in {"false", "threw"} \/ (sc.clearFailed /\ ~sc.removed)) =>
           (sc.stored.present /\ sc.pendingWalk = sc.stored)

\* the screen removed the pending walk after a second migration returned true
C17_Witness ==
    /\ sc.removed
    /\ sc.runs = 2
    /\ ~sc.stored.present

\* the pending walk is kept after a migration returned false
C17_Kept ==
    /\ sc.last = "false"
    /\ sc.pc = "idle"
    /\ sc.stored.present

(* ============================ rate limiter ============================ *)
\* the last call was a checkRateLimit made in the millisecond of the last
\* recorded failure, n failures after the last reset
ImmediateCheck(n) ==
    /\ rl.op = "check"
    /\ rl.pre.failedAttempts = n
    /\ rl.at = rl.pre.lastAttemptTime

\* C18: a checkRateLimit made immediately after the n-th consecutive
\* failure denies: for 1 <= n < maxFailedAttempts with a cooldown message
\* and waitMs = min(baseCooldownMs * 2^(n-1), maxCooldownMs), that is 1 s,
\* 2 s, 4 s, 8 s; for n >= maxFailedAttempts with a lockout message and
\* waitMs = lockoutDurationMs.
C18_ImmediateCheckDenies ==
    \A n \in 1..MaxFails :
        ImmediateCheck(n) =>
            /\ ~rl.res.allowed
            /\ rl.state = rl.pre
            /\ IF n < maxFailedAttempts
               THEN /\ rl.res.message = "Please wait"
                    /\ rl.res.waitMs = Min(baseCooldownMs * 2^(n - 1), maxCooldownMs)
                    /\ rl.res.waitMs = <<1000, 2000, 4000, 8000>>[n]
               ELSE /\ rl.res.message = "Too many failed attempts"
                    /\ rl.res.waitMs = lockoutDurationMs

\* the check right after the fourth failure was denied for 8 seconds
C18_Witness ==
    /\ ImmediateCheck(4)
    /\ rl.res.waitMs = 8000
    /\ rl.res.wait = [n |-> 8, unit |-> "second"]

\* the check right after the fifth failure was denied for the lockout
C18_Locked ==
    /\ ImmediateCheck(maxFailedAttempts)
    /\ rl.res.waitMs = lockoutDurationMs
    /\ rl.res.wait = [n |-> 5, unit |-> "minute"]

\* the last call found a lockout that had elapsed, the idle gap still
\* below resetAfterMs
ElapsedLockout ==
    /\ rl.pre.lockedUntil # NoLock
    /\ rl.at >= rl.pre.lockedUntil
    /\ rl.at - rl.pre.lastAttemptTime < resetAfterMs

\* C19: once a lockout has elapsed the action is Allowed again:
\* checkRateLimit allows, one further recordFailedAttempt leads to
\* Cooldown (no lockout is set, and a check right after it would deny with
\* a cooldown wait of at most maxCooldownMs), and a failure recorded while
\* no lockout is running sets one only when it brings the count from below
\* the maximum to the maximum.
C19_ElapsedLockoutIsAllowedAgain ==
    /\ (rl.op = "check" /\ ElapsedLockout) => rl.res.allowed
    /\ (rl.op = "fail" /\ ElapsedLockout) =>
           LET c == checkRateLimit(rl.state, rl.at).res IN
           /\ ~c.allowed
           /\ c.message = "Please wait"
           /\ c.waitMs <= maxCooldownMs
    /\ (/\ rl.op = "fail"
        /\ rl.pre.lockedUntil = NoLock \/ rl.at >= rl.pre.lockedUntil
        /\ rl.at - rl.pre.lastAttemptTime < resetAfterMs
        /\ rl.state.lockedUntil = rl.at + lockoutDurationMs) =>
           rl.pre.failedAttempts = maxFailedAttempts - 1

\* C20: a checkRateLimit called when the time since the last attempt is
\* at least resetAfterMs, the boundary included, returns allowed with
\* waitMs 0 and resets the state, so that the next recordFailedAttempt
\* leaves failedAttempts = 1 and lockedUntil = null.
C20_IdleResetFromBoundary ==
    (/\ rl.op = "check"
     /\ rl.pre.lastAttemptTime > 0
     /\ rl.at - rl.pre.lastAttemptTime >= resetAfterMs)
        => /\ rl.res = Allowed
           /\ rl.state = resetRateLimit
           /\ recordFailedAttempt(rl.state, clock).failedAttempts = 1
           /\ recordFailedAttempt(rl.state, clock).lockedUntil = NoLock

(* C21: recordSuccessfulAttempt leaves failedAttempts = 0, lastAttemptTime = 0
   and lockedUntil = null whatever state it found, and a checkRateLimit made
   right after it, at the same time, returns allowed with waitMs = 0. *)
C21_SuccessResets ==
    /\ rl.op = "success" =>
         /\ rl.state.failedAttempts = 0
         /\ rl.state.lastAttemptTime = 0
         /\ rl.state.lockedUntil = NoLock
         /\ checkRateLimit(rl.state, rl.at).res.allowed
         /\ checkRateLimit(rl.state, rl.at).res.waitMs = 0
    /\ rl.op = "check" /\ rl.prev = "success" =>
         /\ rl.res.allowed
         /\ rl.res.waitMs = 0
         /\ rl.state = resetRateLimit

\* a success recorded while the action was locked out
C21_Witness ==
    /\ rl.op = "success"
    /\ rl.pre.failedAttempts >= maxFailedAttempts
    /\ rl.pre.lockedUntil # NoLock
    /\ rl.at < rl.pre.lockedUntil
    /\ ~checkRateLimit(rl.pre, rl.at).res.allowed

(* C22: in every state of the limiter a lockout is set only when at least
   maxFailedAttempts failures are counted, and the count is never negative,
   after any calls of checkRateLimit, recordFailedAttempt,
   recordSuccessfulAttempt and resetRateLimit at any times. *)
C22_LockImpliesMaxFailures ==
    /\ rl.state.failedAttempts >= 0
    /\ rl.state.lockedUntil # NoLock => rl.state.failedAttempts >= maxFailedAttempts

\* a lockout that has run out and is still recorded, found by a check
C22_Witness ==
    /\ rl.op = "check"
    /\ rl.state.lockedUntil # NoLock
    /\ rl.at >= rl.state.lockedUntil
    /\ rl.state.failedAttempts = maxFailedAttempts
(* C23: a login submission that fails the form validation, a password under
   the minimum of 8 characters for one, calls neither login nor the network
   and leaves the rate-limit state of the action as it was: no failed
   attempt is recorded. *)
C23_InvalidSubmissionDoesNothing ==
    hs.screen = "login" /\ (~hs.valid \/ hs.password < PASSWORD_MIN_LENGTH) =>
        /\ ~hs.called
        /\ hs.gate = "none"
        /\ hs.records = <<>>
        /\ li = LiInit
        /\ ~isLoading
        /\ rl.state = hs.pre

\* a password of 7 characters was submitted after a failure was counted
C23_Witness ==
    /\ hs.screen = "login" /\ hs.pc = "done"
    /\ hs.password = 7
    /\ ~hs.valid
    /\ rl.state.failedAttempts > 0

(* C24: a login or register attempt made while checkRateLimit denies the
   action calls neither login nor register and leaves the rate-limit state
   as it was; an attempt that passes the gate records exactly one outcome,
   a failure when login or register returned false and a success when it
   returned true. *)
C24_GateThenOneRecord ==
    /\ hs.gate = "denied" =>
         /\ hs.pc = "done" /\ ~hs.called
         /\ li = LiInit /\ rg = RgInit /\ ~isLoading
         /\ hs.records = <<>>
         /\ rl.state = hs.pre
    /\ hs.gate = "allowed" /\ hs.pc = "await" => hs.called /\ hs.records = <<>>
    /\ hs.gate = "allowed" /\ hs.pc = "done" =>
         /\ hs.outcome \in {"true", "false"}
         /\ hs.outcome = "true" => hs.records = <<"success">> /\ rl.state = resetRateLimit
         /\ hs.outcome = "false" =>
              /\ hs.records = <<"fail">>
              /\ rl.pre.failedAttempts = rl.state.failedAttempts
              /\ rl.prev = "fail"

\* a second attempt was let through and failed: the cooldown runs again
C24_Witness ==
    /\ hs.gate = "allowed" /\ hs.pc = "done" /\ hs.outcome = "false"
    /\ rl.state.failedAttempts >= 2
    /\ ~rl.res.allowed

\* a denied attempt on each screen
C24_Denied ==
    /\ hs.gate = "denied" /\ hs.screen = "register"
    /\ hs.pre.failedAttempts > 0
(* C25: for a token whose exp claim is now + k and a buffer b >= 0,
   isTokenExpiredOrExpiring(token, b) is true exactly when k <= b; for a
   token that cannot be decoded or has no exp claim it is true and
   getTokenTimeRemaining is null; and the test of restore, timeRemaining >
   buffer, is the negation of isTokenExpiredOrExpiring with the buffer of
   300 seconds. *)
C25_ExpiringIffWithinBuffer ==
    tc.pc = "applied" =>
        LET decoded == tc.token.segs = 3 /\ tc.token.json
            k == tc.token.exp - tc.now
        IN
        /\ decoded /\ tc.token.exp # 0 =>
             /\ tc.expired <=> k <= tc.buffer
             /\ tc.remaining = [null |-> FALSE, secs |-> k]
        /\ ~decoded \/ tc.token.exp = 0 =>
             tc.expired /\ tc.remaining = NullTime
        /\ tc.adopt <=>
             ~isTokenExpiredOrExpiring(tc.token, TOKEN_REFRESH_BUFFER_SECONDS, tc.now)
        /\ tc.buffer = TOKEN_REFRESH_BUFFER_SECONDS => (tc.adopt <=> ~tc.expired)

\* a token that expires exactly one buffer from now
C25_Witness ==
    /\ tc.pc = "applied"
    /\ tc.token.segs = 3 /\ tc.token.json
    /\ tc.buffer = TOKEN_REFRESH_BUFFER_SECONDS
    /\ tc.token.exp = tc.now + tc.buffer
    /\ tc.expired /\ ~tc.adopt
\* the invocation is over and its last refresh was answered with tokens
\* that it stored and installed
Refreshed(a) ==
    /\ a.pc = "done"
    /\ a.newTokens # NoTokens
    /\ a.raised # StorageError
    /\ a.reRefresh # "null"

(* C26: when two invocations of authenticatedRequest have run at the same
   time and both have refreshed with success, the session is authenticated,
   the token in memory is the stored auth_token, and the stored
   refresh_token was issued by the refresh response that issued that
   access token. *)
C26_LastRefreshWinsEverywhere ==
    Refreshed(ar[1]) /\ Refreshed(ar[2]) =>
        /\ isAuthenticated
        /\ token = store.auth_token
        /\ \E i \in {1, 2} :
             /\ ar[i].newTokens.accessToken = token
             /\ ar[i].newTokens.refreshToken = store.refresh_token
(* C27: once logout has returned the session stays destroyed: no operation
   that was in flight when logout was called, an authenticatedRequest that
   awaits a refresh or the background validation of restore, sets the token
   or the user in memory again or writes auth_token, refresh_token or
   user_data back into the store. *)
C27_LogoutIsFinal ==
    lo.pc = "done" /\ lo.outcome = "returned" =>
        /\ token = NoToken
        /\ user = NoUser
        /\ ~lo.delFailed => store = EmptyStore
\* the create requests among the requests, and those that created a walk
IsCreate(r) == r.step = "create"

IsCreated(r) == r.step = "create" /\ r.ok

(* C28: one invocation of migrateGuestWalk issues the create-walk request
   at most once, whatever the backend answers, also when the track or stop
   request of a walk already created is answered 401 and
   authenticatedRequest refreshes the token and retries. *)
C28_CreateAtMostOnce ==
    Len(SelectSeq(mg.reqs, IsCreate)) <= 1

\* C28, for the walks created only: no invocation creates two walks
C28_OneWalkCreated ==
    Len(SelectSeq(mg.reqs, IsCreated)) <= 1
(* C29: after a login or a registration with a pending guest walk the
   screen starts migrateGuestWalk at most once for that walk: when the
   migration has returned false the effect does not start another
   migration of the same walk by itself. *)
C29_AtMostOneMigration ==
    sc.runs <= 1
(* C30: when every network and storage call returns or fails in the end,
   restore terminates, and it ends with isLoading = false on every path;
   login, register and logout terminate too once called and end with
   isLoading = false. *)
C30_EndsWithLoadingOff ==
    /\ <>(ld.pc = "done")
    /\ [](ld.pc = "done" => ~isLoading)
    /\ (li.pc # "idle") ~> (li.pc = "done")
    /\ [](li.pc = "done" => ~isLoading)
    /\ (rg.pc # "idle") ~> (rg.pc = "done")
    /\ [](rg.pc = "done" => ~isLoading)
    /\ (lo.pc # "idle") ~> (lo.pc = "done")
    /\ [](lo.pc = "done" => ~isLoading)

\* restore has ended by destroying the session after an unexpected error
C30_Witness ==
    /\ ld.pc = "done" /\ ld.caught
    /\ ~isLoading

\* a login that failed has ended
C30_LoginEnded ==
    /\ li.pc = "done" /\ li.outcome = "false" /\ li.writeFailed
    /\ ~isLoading
====
